---- MODULE Spec2Model ----
(***************************************************************************)
(* Chart-annotation overlay of JKM-AI-BOT (frontend/src/drawing and        *)
(* frontend/src/components/ChartBoard.tsx): persistence of user drawings,  *)
(* the gesture state machine, hit-testing and the engine annotation        *)
(* adapter.                                                                *)
(***************************************************************************)
EXTENDS Integers, Sequences, FiniteSets, TLC

VARIABLES
    store,        \* localStorage: [denied: BOOLEAN, item: the text under STORAGE_KEY]
    userShapes,   \* React state userShapes: sequence of JS shape objects
    now,          \* Date.now()
    view,         \* the chart viewport the ToolContext functions read
    ptr,          \* the pointer position of the event being handled
    candles,      \* candlesRef.current: the candle buffer
    arg,          \* argument of the last call of a function under test
    ret,          \* outcome of the last call of a pure function under test
    phase,        \* position of the process driving the calls / of the component
    tool,         \* React state tool
    engineShapes, \* React state engineShapes
    draftShape,   \* React state draftShape (null or a shape)
    selectedId,   \* React state selectedId (null or an id)
    interaction,  \* interactionRef.current
    birth,        \* history: creation rank of each entry of userShapes
    drag,         \* history: the running drag (anchor point, stability of the view, moves)
    lastOp,       \* history: the handler that ran last
    events,       \* history: the number of handler calls since the mount
    net,          \* the symbol shown, requests in flight, live-feed connections, chart series, status
    overlay       \* the viewport the overlay canvas was last drawn with (null before the first drawing)

uiVars == <<tool, engineShapes, draftShape, selectedId, interaction, birth, drag, lastOp, events, net,
            overlay>>
vars == <<store, userShapes, now, view, ptr, candles, arg, ret, phase, uiVars>>

\* bounds of the model
MaxLen == 2       \* longest stored / saved shape list drawn as an input
HitMaxY == 80     \* pointer rows 0..HitMaxY drawn for hitTest
MaxCandles == 2   \* longest candle buffer drawn for the annotation adapter
MaxItems == 2     \* longest levels / zones / fiboZones array of a drawn payload
MaxRnd == 1       \* Math.random() draws 0..MaxRnd
MaxShapes == 2    \* a creation is taken only while the store holds fewer shapes
MaxEvents == 6    \* handler calls followed after the mount
MaxBuf == 3       \* a streamed candle is appended only while the buffer is shorter

(***************************************************************************)
(* JavaScript values.  Every value is a tagged record; numbers keep the    *)
(* non-finite doubles apart (typeof NaN and typeof Infinity are "number"). *)
(***************************************************************************)
Undef == [t |-> "undefined"]
Null == [t |-> "null"]
Num(n) == [t |-> "num", v |-> n]
NaN == [t |-> "nan"]
PosInf == [t |-> "inf"]
Str(s) == [t |-> "str", s |-> s]
Bool(b) == [t |-> "bool", b |-> b]
Obj(f) == [t |-> "obj", f |-> f]
Arr(s) == [t |-> "arr", s |-> s]

TypeOf(x) ==
    CASE x.t \in {"num", "nan", "inf"} -> "number"
      [] x.t = "str" -> "string"
      [] x.t = "undefined" -> "undefined"
      [] OTHER -> "object"

NumberIsFinite(x) == x.t = "num"

\* truthiness of a value in a condition (x ? .. : .., x || ..)
Truthy(x) ==
    CASE x.t = "num" -> x.v # 0
      [] x.t \in {"nan", "null", "undefined"} -> FALSE
      [] x.t = "bool" -> x.b
      [] OTHER -> TRUE

\* Number(x); the strings met here are ISO date texts
ToNumber(x) ==
    CASE x.t \in {"num", "nan", "inf"} -> x
      [] x.t = "null" -> Num(0)
      [] x.t = "bool" -> Num(IF x.b THEN 1 ELSE 0)
      [] OTHER -> NaN

\* property read o.k of a JS object value (undefined when the key is absent)
Get(o, k) == IF o.t = "obj" /\ k \in DOMAIN o.f THEN o.f[k] ELSE Undef

(***************************************************************************)
(* JSON text, as its syntax tree.  A numeric literal beyond the range of a *)
(* double (1e999) is a legal JSON text; JSON.parse reads it as Infinity.   *)
(***************************************************************************)
JNull == [j |-> "null"]
JNum(n) == [j |-> "num", v |-> n]
JHuge == [j |-> "huge"]
JStr(s) == [j |-> "str", s |-> s]
JObj(f) == [j |-> "obj", f |-> f]
JArr(s) == [j |-> "arr", s |-> s]

RECURSIVE StringifyTree(_)
StringifyTree(x) ==
    CASE x.t = "num" -> JNum(x.v)
      [] x.t \in {"nan", "inf", "null", "undefined"} -> JNull
      [] x.t = "str" -> JStr(x.s)
      [] x.t = "bool" -> [j |-> "bool", b |-> x.b]
      [] x.t = "arr" -> JArr([i \in 1..Len(x.s) |-> StringifyTree(x.s[i])])
      [] x.t = "obj" ->
            JObj([k \in {q \in DOMAIN x.f : x.f[q].t # "undefined"} |->
                     StringifyTree(x.f[k])])

RECURSIVE ParseTree(_)
ParseTree(j) ==
    CASE j.j = "null" -> Null
      [] j.j = "num" -> Num(j.v)
      [] j.j = "huge" -> PosInf
      [] j.j = "str" -> Str(j.s)
      [] j.j = "bool" -> Bool(j.b)
      [] j.j = "arr" -> Arr([i \in 1..Len(j.s) |-> ParseTree(j.s[i])])
      [] j.j = "obj" -> Obj([k \in DOMAIN j.f |-> ParseTree(j.f[k])])

\* the text kept under the key: none, the empty string, text that is no JSON, JSON
NoItem == [k |-> "none"]
EmptyText == [k |-> "empty"]
GarbageText == [k |-> "garbage"]
JsonText(tree) == [k |-> "json", tree |-> tree]

\* an evaluation either returns a value or throws
Returned(v) == [threw |-> FALSE, value |-> v]
Thrown == [threw |-> TRUE, value |-> Undef]

JSONStringify(x) == JsonText(StringifyTree(x))

JSONParse(text) ==
    IF text.k = "json" THEN Returned(ParseTree(text.tree)) ELSE Thrown

\* localStorage.getItem / setItem; both throw when the store is unavailable
GetItem(st) ==
    IF st.denied THEN Thrown
    ELSE IF st.item.k = "none" THEN Returned(Null) ELSE Returned(st.item)

SetItem(st, text) ==
    IF st.denied THEN [threw |-> TRUE, store |-> st]
    ELSE [threw |-> FALSE, store |-> [st EXCEPT !.item = text]]

(***************************************************************************)
(* drawing/storage                                                         *)
(***************************************************************************)
IsObject(value) == value.t \in {"obj", "arr"}

IsValidShapeNoEndpointPrice(value) ==
    /\ IsObject(value)
    /\ Get(value, "kind") \in {Str("level"), Str("trendline"), Str("zone")}
    /\ TypeOf(Get(value, "id")) = "string"
    /\ TypeOf(Get(value, "createdAt")) = "number"
    /\ IF Get(value, "kind") = Str("level")
       THEN TypeOf(Get(value, "price")) = "number" /\ NumberIsFinite(Get(value, "price"))
       ELSE /\ IsObject(Get(value, "a"))
            /\ IsObject(Get(value, "b"))
            /\ TypeOf(Get(Get(value, "a"), "time")) = "number"
            /\ TypeOf(Get(Get(value, "b"), "time")) = "number"

IsValidShape(value) ==
    /\ IsObject(value)
    /\ Get(value, "kind") \in {Str("level"), Str("trendline"), Str("zone")}
    /\ TypeOf(Get(value, "id")) = "string"
    /\ TypeOf(Get(value, "createdAt")) = "number"
    /\ IF Get(value, "kind") = Str("level")
       THEN TypeOf(Get(value, "price")) = "number" /\ NumberIsFinite(Get(value, "price"))
       ELSE /\ IsObject(Get(value, "a"))
            /\ IsObject(Get(value, "b"))
            /\ TypeOf(Get(Get(value, "a"), "time")) = "number"
            /\ TypeOf(Get(Get(value, "a"), "price")) = "number"
            /\ TypeOf(Get(Get(value, "b"), "time")) = "number"
            /\ TypeOf(Get(Get(value, "b"), "price")) = "number"

\* shapes.filter(isValidShape)
RECURSIVE FilterValid(_)
FilterValid(s) ==
    IF s = <<>> THEN <<>>
    ELSE (IF IsValidShape(Head(s)) THEN <<Head(s)>> ELSE <<>>) \o FilterValid(Tail(s))

\* saveDrawings(shapes): the envelope's savedAt is Date.now()
SaveDrawings(st, shapes, savedAt) ==
    SetItem(st, JSONStringify(Obj([version |-> Num(1),
                                   savedAt |-> Num(savedAt),
                                   shapes |-> Arr(shapes)])))

\* the body of loadDrawings' try block; Thrown when a call in it throws
LoadBody(st) ==
    LET raw == GetItem(st) IN
    IF raw.threw THEN Thrown
    ELSE IF raw.value = Null \/ raw.value = EmptyText THEN Returned(<<>>)
    ELSE LET parsed == JSONParse(raw.value) IN
         IF parsed.threw THEN Thrown
         ELSE IF \/ ~IsObject(parsed.value)
                 \/ Get(parsed.value, "version") # Num(1)
                 \/ Get(parsed.value, "shapes").t # "arr"
              THEN Returned(<<>>)
              ELSE Returned(FilterValid(Get(parsed.value, "shapes").s))

LoadDrawingsNoCatch(st) == LoadBody(st)

LoadDrawingsAnyVersion(st) ==
    LET raw == GetItem(st) IN
    IF raw.threw \/ raw.value = Null \/ raw.value = EmptyText THEN Returned(<<>>)
    ELSE LET parsed == JSONParse(raw.value) IN
         IF parsed.threw \/ ~IsObject(parsed.value)
            \/ Get(parsed.value, "shapes").t # "arr"
         THEN Returned(<<>>)
         ELSE Returned(FilterValid(Get(parsed.value, "shapes").s))

\* loadDrawings(): try { body } catch { return [] }
LoadDrawings(st) ==
    LET r == LoadBody(st) IN IF r.threw THEN Returned(<<>>) ELSE r

(***************************************************************************)
(* Inputs of the storage functions                                         *)
(***************************************************************************)
Range(f) == {f[i] : i \in DOMAIN f}
SeqsUpTo(S, n) == UNION {[1..k -> S] : k \in 0..n}

\* JSON texts of single stored entries
JPoint(t, p) == JObj([time |-> t, price |-> p])
JLevel(id, at, price) ==
    JObj([kind |-> JStr("level"), id |-> JStr(id), createdAt |-> at, price |-> price])
JSeg(kind, id, at, a, b) ==
    JObj([kind |-> JStr(kind), id |-> JStr(id), createdAt |-> at, a |-> a, b |-> b])

JLevel100 == JLevel(<<"lvl", 1, 1>>, JNum(1), JNum(100))
JTrendMissingBPrice ==
    JSeg("trendline", <<"tl", 2, 2>>, JNum(2), JPoint(JNum(0), JNum(94)), JObj([time |-> JNum(6)]))

StoredEntries ==
    { JLevel100,
      JObj([kind |-> JStr("level"), id |-> JStr(<<"lvl", 1, 1>>), createdAt |-> JNum(1),
            price |-> JNum(100), label |-> JStr("L")]),
      JSeg("trendline", <<"tl", 2, 2>>, JNum(2), JPoint(JNum(0), JNum(94)), JPoint(JNum(6), JNum(100))),
      JSeg("zone", <<"zone", 3, 3>>, JNum(3), JPoint(JNum(6), JNum(100)), JPoint(JNum(0), JNum(88))),
      JTrendMissingBPrice,
      JSeg("zone", <<"zone", 3, 3>>, JNum(3), JPoint(JNum(6), JNum(100)), JNull),
      JSeg("trendline", <<"tl", 2, 2>>, JNum(2), JPoint(JStr("0"), JNum(94)), JPoint(JNum(6), JNum(100))),
      JSeg("trendline", <<"tl", 2, 2>>, JNum(2), JPoint(JHuge, JNum(94)), JPoint(JNum(6), JNum(100))),
      JObj([kind |-> JStr("level"), createdAt |-> JNum(1), price |-> JNum(100)]),
      JObj([kind |-> JStr("level"), id |-> JStr(<<"lvl", 1, 1>>), price |-> JNum(100)]),
      JObj([kind |-> JStr("level"), id |-> JStr(<<"lvl", 1, 1>>), createdAt |-> JNum(1)]),
      JObj([kind |-> JStr("level"), id |-> JNum(7), createdAt |-> JNum(1), price |-> JNum(100)]),
      JLevel(<<"lvl", 1, 1>>, JNum(1), JHuge),
      JLevel(<<"lvl", 1, 1>>, JHuge, JNum(100)),
      JLevel(<<"lvl", 1, 1>>, JNum(1), JStr("100")),
      JObj([kind |-> JStr("circle"), id |-> JStr(<<"c", 4, 4>>), createdAt |-> JNum(4),
            price |-> JNum(100)]),
      JNull,
      JNum(5) }

JEnvelope(version, shapes) == JObj([version |-> version, savedAt |-> JNum(1), shapes |-> shapes])

StoredTexts ==
    {NoItem, EmptyText, GarbageText, JsonText(JNull), JsonText(JNum(1)),
     JsonText(JArr(<<JLevel100>>)),
     JsonText(JObj([savedAt |-> JNum(1), shapes |-> JArr(<<JLevel100>>)])),
     JsonText(JObj([version |-> JNum(1), savedAt |-> JNum(1)])),
     JsonText(JEnvelope(JNum(1), JLevel100)),
     JsonText(JEnvelope(JNum(2), JNull))}
    \cup {JsonText(JEnvelope(v, JArr(l))) :
             v \in {JNum(1), JNum(2), JStr(<<"1">>)}, l \in SeqsUpTo(StoredEntries, MaxLen)}

\* in-memory shapes
Point(t, p) == Obj([time |-> t, price |-> p])
Level(id, at, price) ==
    Obj([kind |-> Str("level"), id |-> Str(id), createdAt |-> at, price |-> price])
Seg(kind, id, at, a, b) ==
    Obj([kind |-> Str(kind), id |-> Str(id), createdAt |-> at, a |-> a, b |-> b])

ShapeValues ==
    { Level(<<"lvl", 1, 1>>, Num(1), Num(100)),
      Level(<<"lvl", 1, 1>>, NaN, Num(100)),
      Level(<<"lvl", 1, 1>>, Num(1), PosInf),
      Seg("trendline", <<"tl", 2, 2>>, Num(2), Point(Num(0), Num(94)), Point(Num(6), Num(100))),
      Seg("trendline", <<"tl", 2, 2>>, Num(2), Point(PosInf, Num(94)), Point(Num(6), Num(100))),
      Seg("zone", <<"zone", 3, 3>>, Num(3), Point(Num(6), Num(100)), Point(Num(0), Num(88))),
      Seg("zone", <<"zone", 3, 3>>, Num(3), Point(Num(6), Num(100)), Point(Num(0), NaN)),
      Seg("zone", <<"zone", 3, 3>>, Num(3), Point(Num(6), Num(100)), Null),
      Obj([kind |-> Str("zone"), id |-> Str(<<"zone", 3, 3>>), createdAt |-> Num(3),
           a |-> Point(Num(6), Num(100)), b |-> Point(Num(0), Num(88)), label |-> Str("Z")]) }

\* the structurally valid lists S handed to saveDrawings
ValidLists == SeqsUpTo({v \in ShapeValues : IsValidShape(v)}, MaxLen)

\* the component's state as its hooks initialise it (the shapes aside)
\* no chart, no request and no connection
\* syncs holds the annotation requests in flight, numbered in the order they
\* were started; started counts them and handled is the greatest number whose
\* response a mounted component has handled
NoNet == [alive |-> FALSE, symbol |-> "", fetches |-> {}, syncs |-> {}, open |-> {},
          wsRef |-> 0, made |-> 0, series |-> <<>>, status |-> [k |-> "idle"],
          started |-> 0, handled |-> 0]

NoDrag == [anchor |-> Null, stable |-> TRUE, last |-> Null, moves |-> 0]
UiInitial ==
    /\ tool = "select"
    /\ engineShapes = <<>>
    /\ draftShape = Null
    /\ selectedId = Null
    /\ interaction = [mode |-> "none"]
    /\ birth = <<>>
    /\ drag = NoDrag
    /\ lastOp = "init"
    /\ events = 0
    /\ net = NoNet
    /\ overlay = Null

(***************************************************************************)
(* CoordinateBridge: the ToolContext of ChartBoard over the chart's        *)
(* viewport.  The viewport shows w+1 pixel columns and h+1 pixel rows; its *)
(* left column is time t0, its top row price p0, one unit per pixel.  Each *)
(* function returns a number or null.                                      *)
(***************************************************************************)
NoView == [t0 |-> 0, p0 |-> 0, w |-> 0, h |-> 0]
NoPtr == [x |-> 0, y |-> 0]

XToTime(v, x) == IF 0 <= x /\ x <= v.w THEN Num(v.t0 + x) ELSE Null
YToPrice(v, y) == IF 0 <= y /\ y <= v.h THEN Num(v.p0 - y) ELSE Null
TimeToX(v, time) ==
    IF time.t = "num" /\ 0 <= time.v - v.t0 /\ time.v - v.t0 <= v.w
    THEN Num(time.v - v.t0) ELSE Null
PriceToY(v, price) ==
    IF price.t = "num" /\ 0 <= v.p0 - price.v /\ v.p0 - price.v <= v.h
    THEN Num(v.p0 - price.v) ELSE Null

(***************************************************************************)
(* drawing/tools                                                           *)
(***************************************************************************)
\* newId(prefix): prefix, Math.random() and Date.now()
NewId(prefix, rnd, at) == <<prefix, rnd, at>>

\* toPoint(ctx, p)
ToPoint(v, p) ==
    LET time == XToTime(v, p.x)
        price == YToPrice(v, p.y)
    IN IF time = Null \/ price = Null THEN Null ELSE Point(time, price)

Threshold == 8

Abs(n) == IF n < 0 THEN -n ELSE n
Min(a, b) == IF a <= b THEN a ELSE b
Max(a, b) == IF a >= b THEN a ELSE b

\* Math.min / Math.max on JS numbers (NaN wins, then Infinity is the largest)
MathMin(a, b) ==
    IF a.t = "nan" \/ b.t = "nan" THEN NaN
    ELSE IF a.t = "inf" THEN b
    ELSE IF b.t = "inf" THEN a
    ELSE Num(Min(a.v, b.v))
MathMax(a, b) ==
    IF a.t = "nan" \/ b.t = "nan" THEN NaN
    ELSE IF a.t = "inf" \/ b.t = "inf" THEN PosInf
    ELSE Num(Max(a.v, b.v))

(***************************************************************************)
(* IEEE-754 binary64 arithmetic, as far as distPointToSegment needs it.    *)
(* A natural number is its sequence of 13-bit limbs, lowest first, with no *)
(* zero limb on top; a double is sign, mantissa and binary exponent:       *)
(* +-m * 2^e, the mantissa rounded to 53 bits, nearest with ties to even.  *)
(***************************************************************************)
MantissaBits == 53
LimbBits == 13
LimbBase == 2 ^ LimbBits
QuotientLimbs == 6

LTrim(l) ==
    LET used == {i \in 1..Len(l) : l[i] # 0}
    IN IF used = {} THEN <<>>
       ELSE SubSeq(l, 1, CHOOSE i \in used : \A j \in used : j <= i)

RECURSIVE Limbs(_)
Limbs(n) == IF n = 0 THEN <<>> ELSE <<n % LimbBase>> \o Limbs(n \div LimbBase)

BitLen(l) ==
    IF l = <<>> THEN 0
    ELSE LimbBits * (Len(l) - 1)
         + (CHOOSE k \in 1..LimbBits : 2 ^ (k - 1) <= l[Len(l)] /\ l[Len(l)] < 2 ^ k)

\* bit i of l, the lowest being bit 1
LBit(l, i) == (l[(i - 1) \div LimbBits + 1] \div (2 ^ ((i - 1) % LimbBits))) % 2

\* l * 2^k and floor(l / 2^k)
LShl(l, k) ==
    LET a == k \div LimbBits
        r == k % LimbBits
        at(i) == IF 1 <= i /\ i <= Len(l) THEN l[i] ELSE 0
    IN IF l = <<>> \/ k <= 0 THEN l
       ELSE LTrim([j \in 1..(Len(l) + a + 1) |->
                      ((at(j - a) * (2 ^ r)) % LimbBase)
                      + (at(j - a - 1) \div (2 ^ (LimbBits - r)))])
LShr(l, k) ==
    LET a == k \div LimbBits
        r == k % LimbBits
        at(i) == IF 1 <= i /\ i <= Len(l) THEN l[i] ELSE 0
    IN IF k <= 0 THEN l
       ELSE LTrim([j \in 1..Len(l) |->
                      (at(j + a) \div (2 ^ r))
                      + ((at(j + a + 1) % (2 ^ r)) * (2 ^ (LimbBits - r)))])

RECURSIVE LAddC(_, _, _)
LAddC(a, b, c) ==
    IF a = <<>> /\ b = <<>> THEN (IF c = 0 THEN <<>> ELSE <<c>>)
    ELSE LET x == IF a = <<>> THEN 0 ELSE a[1]
             y == IF b = <<>> THEN 0 ELSE b[1]
             s == x + y + c
         IN <<s % LimbBase>> \o LAddC(IF a = <<>> THEN a ELSE Tail(a),
                                      IF b = <<>> THEN b ELSE Tail(b), s \div LimbBase)
LAdd(a, b) == LAddC(a, b, 0)

\* a - b for a >= b
RECURSIVE LSubC(_, _, _)
LSubC(a, b, c) ==
    IF a = <<>> THEN <<>>
    ELSE LET y == IF b = <<>> THEN 0 ELSE b[1]
             s == a[1] - y - c
         IN <<s % LimbBase>> \o LSubC(Tail(a), IF b = <<>> THEN b ELSE Tail(b),
                                      IF s < 0 THEN 1 ELSE 0)
LSub(a, b) == LTrim(LSubC(a, b, 0))

\* a * d for one limb d
RECURSIVE LScale(_, _, _)
LScale(a, d, c) ==
    IF a = <<>> THEN (IF c = 0 THEN <<>> ELSE <<c>>)
    ELSE LET s == a[1] * d + c
         IN <<s % LimbBase>> \o LScale(Tail(a), d, s \div LimbBase)

RECURSIVE LMul(_, _)
LMul(a, b) ==
    IF a = <<>> \/ b = <<>> THEN <<>>
    ELSE LTrim(LAdd(LScale(a, b[1], 0), <<0>> \o LMul(a, Tail(b))))

LLess(a, b) ==
    IF Len(a) # Len(b) THEN Len(a) < Len(b)
    ELSE \E i \in 1..Len(a) :
            a[i] < b[i] /\ \A j \in (i + 1)..Len(a) : a[j] = b[j]

Dbl(neg, m, e) == [neg |-> neg, m |-> m, e |-> e]
FromInt(n) == Dbl(n < 0, Limbs(Abs(n)), 0)

RECURSIVE Round53(_)
Round53(x) ==
    IF BitLen(x.m) <= MantissaBits THEN x
    ELSE LET k == BitLen(x.m) - MantissaBits
             kept == LShr(x.m, k)
             half == LBit(x.m, k) = 1
             sticky == \E i \in 1..(k - 1) : LBit(x.m, i) = 1
             up == half /\ (sticky \/ LBit(kept, 1) = 1)
         IN Round53(Dbl(x.neg, IF up THEN LAdd(kept, <<1>>) ELSE kept, x.e + k))

\* the limbs of floor(n * 2^(13 k) / d) and the last remainder, for n < d < 2^18
RECURSIVE LongDiv(_, _, _, _)
LongDiv(rem, d, k, acc) ==
    IF k = 0 THEN [q |-> LTrim(acc), rem |-> rem]
    ELSE LongDiv((rem * LimbBase) % d, d, k - 1, <<(rem * LimbBase) \div d>> \o acc)

\* n / d for integers 0 < n < d: the quotient to 78 bits and a sticky bit
FDivInts(n, d) ==
    LET r == LongDiv(n, d, QuotientLimbs, <<>>)
        sticky == IF r.rem = 0 THEN <<>> ELSE <<1>>
    IN Round53(Dbl(FALSE, LAdd(LShl(r.q, 1), sticky), -(QuotientLimbs * LimbBits) - 1))

FMul(x, y) == Round53(Dbl(x.neg # y.neg, LMul(x.m, y.m), x.e + y.e))

FNeg(x) == Dbl(~x.neg, x.m, x.e)

FAdd(x, y) ==
    LET e == IF x.e <= y.e THEN x.e ELSE y.e
        a == LShl(x.m, x.e - e)
        b == LShl(y.m, y.e - e)
    IN IF x.neg = y.neg THEN Round53(Dbl(x.neg, LAdd(a, b), e))
       ELSE IF LLess(a, b) THEN Round53(Dbl(y.neg, LSub(b, a), e))
       ELSE Round53(Dbl(x.neg, LSub(a, b), e))

FSub(x, y) == FAdd(x, FNeg(y))

\* |x| <= |y| for two dyadic numbers
MagLeq(x, y) ==
    LET e == IF x.e <= y.e THEN x.e ELSE y.e
    IN ~LLess(LShl(y.m, y.e - e), LShl(x.m, x.e - e))

\* Math.sqrt(x) <= n for a double x >= 0 and an integer n > 0: the correctly
\* rounded root is at most n exactly when x <= (n + ulp(n) / 2)^2
FSqrtLeqInt(x, n) ==
    LET k == MantissaBits + 1 - BitLen(Limbs(n))
        bound == LAdd(LShl(Limbs(n), k), <<1>>)
    IN MagLeq(x, Dbl(FALSE, LMul(bound, bound), -2 * k))

\* distPointToSegment(px, py, ax, ay, bx, by) before its Math.sqrt: the double
\* dx * dx + dy * dy
DistPointToSegmentSquared(px, py, ax, ay, bx, by) ==
    LET abx == bx - ax
        aby == by - ay
        apx == px - ax
        apy == py - ay
        denom == abx * abx + aby * aby
        dot == apx * abx + apy * aby
        t == IF denom = 0 \/ dot <= 0 THEN FromInt(0)
             ELSE IF dot >= denom THEN FromInt(1)
             ELSE FDivInts(dot, denom)
        cx == FAdd(FromInt(ax), FMul(t, FromInt(abx)))
        cy == FAdd(FromInt(ay), FMul(t, FromInt(aby)))
        dx == FSub(FromInt(px), cx)
        dy == FSub(FromInt(py), cy)
    IN FAdd(FMul(dx, dx), FMul(dy, dy))

\* distPointToSegment(px, py, ax, ay, bx, by) <= limit on integer pixels.  With
\* the projection clamped to an endpoint every step is exact in doubles; inside
\* the segment the rounding error is far below the gap between the distance and
\* the limit unless the exact distance is the limit itself, which is where the
\* doubles are evaluated
DistPointToSegmentWithin(px, py, ax, ay, bx, by, limit) ==
    LET abx == bx - ax
        aby == by - ay
        apx == px - ax
        apy == py - ay
        denom == abx * abx + aby * aby
        dot == apx * abx + apy * aby
    IN IF denom = 0 \/ dot <= 0 THEN apx * apx + apy * apy <= limit * limit
       ELSE IF dot >= denom
            THEN (px - bx) * (px - bx) + (py - by) * (py - by) <= limit * limit
            ELSE IF (apx * apx + apy * apy) * denom - dot * dot # limit * limit * denom
                 THEN (apx * apx + apy * apy) * denom - dot * dot < limit * limit * denom
                 ELSE FSqrtLeqInt(DistPointToSegmentSquared(px, py, ax, ay, bx, by), limit)

HitsShapeStrict(s, v, p) ==
    /\ Get(s, "kind") = Str("level")
    /\ PriceToY(v, Get(s, "price")) # Null
    /\ Abs(p.y - PriceToY(v, Get(s, "price")).v) < Threshold

\* one iteration of hitTest's loop: is shape s hit at pointer p
HitsShape(s, v, p) ==
    \/ /\ Get(s, "kind") = Str("level")
       /\ LET y == PriceToY(v, Get(s, "price")) IN
          y # Null /\ Abs(p.y - y.v) <= Threshold
    \/ /\ Get(s, "kind") = Str("trendline")
       /\ LET ax == TimeToX(v, Get(Get(s, "a"), "time"))
              ay == PriceToY(v, Get(Get(s, "a"), "price"))
              bx == TimeToX(v, Get(Get(s, "b"), "time"))
              by == PriceToY(v, Get(Get(s, "b"), "price"))
          IN /\ ax # Null /\ ay # Null /\ bx # Null /\ by # Null
             /\ DistPointToSegmentWithin(p.x, p.y, ax.v, ay.v, bx.v, by.v, Threshold)
    \/ /\ Get(s, "kind") = Str("zone")
       /\ LET x1 == TimeToX(v, MathMin(Get(Get(s, "a"), "time"), Get(Get(s, "b"), "time")))
              x2 == TimeToX(v, MathMax(Get(Get(s, "a"), "time"), Get(Get(s, "b"), "time")))
              y1 == PriceToY(v, MathMin(Get(Get(s, "a"), "price"), Get(Get(s, "b"), "price")))
              y2 == PriceToY(v, MathMax(Get(Get(s, "a"), "price"), Get(Get(s, "b"), "price")))
          IN /\ x1 # Null /\ x2 # Null /\ y1 # Null /\ y2 # Null
             /\ p.x >= Min(x1.v, x2.v) /\ p.x <= Max(x1.v, x2.v)
             /\ p.y >= Min(y1.v, y2.v) /\ p.y <= Max(y1.v, y2.v)

\* the loop of hitTest from index i down to 1
RECURSIVE HitScan(_, _, _, _)
HitScan(shapes, v, p, i) ==
    IF i < 1 THEN Null
    ELSE IF HitsShape(shapes[i], v, p) THEN Obj([id |-> Get(shapes[i], "id")])
    ELSE HitScan(shapes, v, p, i - 1)

RECURSIVE HitScanUp(_, _, _, _)
HitScanUp(shapes, v, p, i) ==
    IF i > Len(shapes) THEN Null
    ELSE IF HitsShape(shapes[i], v, p) THEN Obj([id |-> Get(shapes[i], "id")])
    ELSE HitScanUp(shapes, v, p, i + 1)

HitTestFirstToLast(shapes, v, p) == HitScanUp(shapes, v, p, 1)

\* hitTest(shapes, ctx, p)
HitTest(shapes, v, p) == HitScan(shapes, v, p, Len(shapes))

(***************************************************************************)
(* SpecHitTest: hitTest called on drawn shapes and pointers                *)
(***************************************************************************)
HitView == [t0 |-> 0, p0 |-> 150, w |-> 40, h |-> HitMaxY]

HitShapes ==
    { Level(<<"lvl", 1, 1>>, Num(1), Num(100)),
      Level(<<"lvl", 1, 1>>, Num(1), Num(140)),
      Level(<<"lvl", 1, 1>>, Num(1), Num(200)),
      Seg("trendline", <<"tl", 2, 2>>, Num(2), Point(Num(0), Num(120)), Point(Num(40), Num(90))),
      Seg("zone", <<"zone", 3, 3>>, Num(3), Point(Num(30), Num(100)), Point(Num(10), Num(130))) }

InitHitTest ==
    /\ UiInitial
    /\ store = [denied |-> FALSE, item |-> NoItem]
    /\ userShapes \in {<<s>> : s \in HitShapes}
    /\ now = 1
    /\ view = HitView
    /\ ptr \in [x : {0, 20, 50}, y : 0..HitMaxY]
    /\ candles = <<>>
    /\ arg = Null
    /\ ret = Null
    /\ phase = "toHit"

HtCall ==
    /\ phase = "toHit"
    /\ ret' = HitTest(userShapes, view, ptr)
    /\ phase' = "hit"
    /\ UNCHANGED <<store, userShapes, now, view, ptr, candles, arg, uiVars>>

NextHitTest == HtCall

SpecHitTest == InitHitTest /\ [][NextHitTest]_vars

\* C8: a Level is hit exactly when |pointer.y - priceToY(price)| <= 8, whatever
\* the pointer's x; with priceToY(100) = 50 it is hit for y in 42..58, not at 70.
LevelHitRule ==
    (phase = "hit" /\ Get(userShapes[1], "kind") = Str("level")) =>
        LET price == Get(userShapes[1], "price").v
            hit == ret = Obj([id |-> Get(userShapes[1], "id")])
        IN /\ ret # Null => hit
           /\ (view.p0 - price \in 0..view.h) =>
                 (hit <=> (ptr.y - (view.p0 - price) \in -8..8))
           /\ (price = 100 /\ view.p0 - price = 50) =>
                 /\ ptr.y \in 42..58 => hit
                 /\ ptr.y = 70 => ret = Null

LevelHitRuleWitness ==
    /\ phase = "hit"
    /\ userShapes[1] = Level(<<"lvl", 1, 1>>, Num(1), Num(100))
    /\ PriceToY(view, Num(100)) = Num(50)
    /\ ptr = [x |-> 50, y |-> 58]
    /\ ret = Obj([id |-> Str(<<"lvl", 1, 1>>)])

(***************************************************************************)
(* ChartBoard: the engine annotation adapter                               *)
(***************************************************************************)
\* nowSec()
NowSec(ms) == ms \div 1000

\* a candle of the buffer; open, high and low are carried like close
Candle(time, close) == Obj([time |-> time, close |-> close])

IsNullish(x) == x.t \in {"null", "undefined"}

\* annotationsJson.levels || [] as the sequence a for-of loop walks; Thrown
\* when the value is truthy and not iterable (a string yields its characters,
\* none of which has a price)
ItemsOf(ann, key) ==
    LET x == Get(ann, key) IN
    IF ~Truthy(x) \/ x.t = "str" THEN Returned(<<>>)
    ELSE IF x.t = "arr" THEN Returned(x.s)
    ELSE Thrown

EngineLevel(lvl, idRnd, at) ==
    Obj([id |-> Str(NewId("eng_lvl", idRnd, at)), kind |-> Str("level"),
         createdAt |-> Num(at), price |-> Get(lvl, "price"), label |-> Get(lvl, "label"),
         readonly |-> Bool(TRUE), color |-> Str("gold")])

EngineZone(z, prefix, color, t1, t2, idRnd, at) ==
    Obj([id |-> Str(NewId(prefix, idRnd, at)), kind |-> Str("zone"),
         createdAt |-> Num(at),
         a |-> Point(t1, Get(z, "priceFrom")), b |-> Point(t2, Get(z, "priceTo")),
         label |-> Get(z, "label"), readonly |-> Bool(TRUE), color |-> Str(color)])

\* for (const lvl of levels) ...; acc is next, rnds the Math.random() draws
RECURSIVE PushLevels(_, _, _, _, _)
PushLevels(items, i, acc, at, rnds) ==
    IF i > Len(items) THEN Returned(acc)
    ELSE IF IsNullish(items[i]) THEN Thrown
    ELSE IF TypeOf(Get(items[i], "price")) # "number" \/ ~NumberIsFinite(Get(items[i], "price"))
         THEN PushLevels(items, i + 1, acc, at, rnds)
         ELSE PushLevels(items, i + 1,
                         Append(acc, EngineLevel(items[i], rnds[Len(acc) + 1], at)), at, rnds)

\* for (const z of zones) ... and for (const z of fiboZones) ...
RECURSIVE PushZones(_, _, _, _, _, _, _, _, _)
PushZones(items, i, acc, prefix, color, t1, t2, at, rnds) ==
    IF i > Len(items) THEN Returned(acc)
    ELSE IF IsNullish(items[i]) THEN Thrown
    ELSE IF ~NumberIsFinite(Get(items[i], "priceFrom")) \/ ~NumberIsFinite(Get(items[i], "priceTo"))
         THEN PushZones(items, i + 1, acc, prefix, color, t1, t2, at, rnds)
         ELSE PushZones(items, i + 1,
                        Append(acc, EngineZone(items[i], prefix, color, t1, t2,
                                               rnds[Len(acc) + 1], at)),
                        prefix, color, t1, t2, at, rnds)

\* data.at(0)?.time and data.at(-1)?.time
FirstTime(data) == IF Len(data) = 0 THEN Undef ELSE Get(data[1], "time")
LastTime(data) == IF Len(data) = 0 THEN Undef ELSE Get(data[Len(data)], "time")

AnchorOrFallback(time, fallback) == IF Truthy(time) THEN ToNumber(time) ELSE Num(fallback)

\* buildEngineShapes(annotationsJson) over candlesRef.current = data at Date.now() = at
BuildEngineShapes(ann, data, at, rnds) ==
    LET t1 == AnchorOrFallback(FirstTime(data), NowSec(at) - 3600)
        t2 == AnchorOrFallback(LastTime(data), NowSec(at))
        levels == ItemsOf(ann, "levels")
        zones == ItemsOf(ann, "zones")
        fiboZones == ItemsOf(ann, "fiboZones")
    IN IF IsNullish(ann) \/ levels.threw \/ zones.threw \/ fiboZones.threw THEN Thrown
       ELSE LET r1 == PushLevels(levels.value, 1, <<>>, at, rnds) IN
            IF r1.threw THEN Thrown
            ELSE LET r2 == PushZones(zones.value, 1, r1.value, "eng_zone", "green",
                                     t1, t2, at, rnds) IN
                 IF r2.threw THEN Thrown
                 ELSE PushZones(fiboZones.value, 1, r2.value, "eng_fibo", "gold",
                                t1, t2, at, rnds)

\* number of items of a payload, an upper bound on the ids drawn
ItemCount(ann) ==
    LET n(key) == IF Get(ann, key).t = "arr" THEN Len(Get(ann, key).s) ELSE 0
    IN n("levels") + n("zones") + n("fiboZones")

(***************************************************************************)
(* SpecAdapter: buildEngineShapes called on drawn payloads and buffers     *)
(***************************************************************************)
\* prices in ticks of 0.0001
LevelItems ==
    { Obj([price |-> Num(12345)]),
      Obj([price |-> Num(12000), label |-> Str("R1")]),
      Obj([price |-> NaN]) }

ZoneItems ==
    { Obj([priceFrom |-> Num(10000), priceTo |-> Num(11000)]),
      Obj([priceFrom |-> Num(11000), priceTo |-> Num(10000), label |-> Str("Z")]),
      Obj([priceFrom |-> Num(10000)]) }

\* payloads whose arrays hold objects; an absent array is an absent key
PayloadsOf(ls, zs, fs) ==
    {Obj([levels |-> Arr(l), zones |-> Arr(z), fiboZones |-> Arr(f)]) :
        l \in ls, z \in zs, f \in fs}
    \cup {Obj([levels |-> Arr(l), zones |-> Arr(z)]) : l \in ls, z \in zs}
    \cup {Obj([fiboZones |-> Arr(f)]) : f \in fs}

AdapterPayloads ==
    PayloadsOf(SeqsUpTo(LevelItems, MaxItems), SeqsUpTo(ZoneItems, MaxItems),
               {<<>>, <<Obj([priceFrom |-> Num(10000), priceTo |-> Num(11000)])>>})

\* payloads with malformed items: null, a number, a price sent as a string
MalformedLevelItems ==
    { Null, Num(5), Obj([price |-> Str("1.2345")]), Obj([price |-> Num(12345)]) }
MalformedZoneItems ==
    { Null, Obj([priceFrom |-> Num(10000), priceTo |-> NaN]),
      Obj([priceFrom |-> Num(10000), priceTo |-> Num(11000)]) }
MalformedItemPayloads ==
    {Obj([levels |-> Arr(l)]) : l \in SeqsUpTo(MalformedLevelItems, MaxItems)}
    \cup {Obj([zones |-> Arr(z)]) : z \in SeqsUpTo(MalformedZoneItems, MaxItems)}
    \cup {Obj([levels |-> Arr(<<Obj([price |-> Num(12345)])>>), fiboZones |-> Arr(z)]) :
             z \in SeqsUpTo(MalformedZoneItems, MaxItems)}

\* candle times in whole seconds, the epoch included
CandleTimes == {0, 1000, 2000}
CandleBuffers == SeqsUpTo({Candle(Num(t), Num(10500)) : t \in CandleTimes}, MaxCandles)

InitAdapter ==
    /\ UiInitial
    /\ store = [denied |-> FALSE, item |-> NoItem]
    /\ userShapes = <<>>
    /\ now = 5000000
    /\ view = NoView
    /\ ptr = NoPtr
    /\ candles \in CandleBuffers
    /\ arg \in AdapterPayloads \cup MalformedItemPayloads
    /\ ret = Null
    /\ phase = "toBuild"

AdCall ==
    /\ phase = "toBuild"
    /\ \E rnds \in [1..ItemCount(arg) -> 0..MaxRnd] :
          ret' = BuildEngineShapes(arg, candles, now, rnds)
    /\ phase' = "built"
    /\ UNCHANGED <<store, userShapes, now, view, ptr, candles, arg, uiVars>>

NextAdapter == AdCall

SpecAdapter == InitAdapter /\ [][NextAdapter]_vars

\* the items of a payload array that carry finite numbers in the named fields
ItemsWith(key, fields) ==
    IF Get(arg, key).t # "arr" THEN <<>>
    ELSE SelectSeq(Get(arg, key).s,
                   LAMBDA it : \A f \in fields : Get(it, f).t = "num")

\* what the claim expects of the adapter: kind, price(s) and anchor times
ExpectedGeometry ==
    LET t1 == IF Len(candles) = 0 THEN Num(NowSec(now) - 3600) ELSE Get(candles[1], "time")
        t2 == IF Len(candles) = 0 THEN Num(NowSec(now)) ELSE Get(candles[Len(candles)], "time")
        lv == ItemsWith("levels", {"price"})
        zs == ItemsWith("zones", {"priceFrom", "priceTo"}) \o
              ItemsWith("fiboZones", {"priceFrom", "priceTo"})
    IN [i \in 1..Len(lv) |-> [kind |-> "level", price |-> lv[i].f.price]] \o
       [i \in 1..Len(zs) |-> [kind |-> "zone",
                               a |-> Point(t1, zs[i].f.priceFrom),
                               b |-> Point(t2, zs[i].f.priceTo)]]

GeometryOf(shapes) ==
    [i \in 1..Len(shapes) |->
        IF Get(shapes[i], "kind") = Str("level")
        THEN [kind |-> "level", price |-> Get(shapes[i], "price")]
        ELSE [kind |-> "zone", a |-> Get(shapes[i], "a"), b |-> Get(shapes[i], "b")]]

\* C10: the adapter yields one engine Level per valid level item at its price and
\* one engine Zone per valid zone/fiboZone item, anchored from the first to the
\* last loaded candle's time (now - 3600 s and now when no candle is loaded).
AdapterAnchorsToCandleRange ==
    phase = "built" => (~ret.threw /\ GeometryOf(ret.value) = ExpectedGeometry)

\* the prices of the engine shapes, and the prices the well-formed items carry
PricesOf(shapes) ==
    [i \in 1..Len(shapes) |->
        IF Get(shapes[i], "kind") = Str("level")
        THEN <<Get(shapes[i], "price")>>
        ELSE <<Get(Get(shapes[i], "a"), "price"), Get(Get(shapes[i], "b"), "price")>>]
WellFormedPrices ==
    LET lv == ItemsWith("levels", {"price"})
        zs == ItemsWith("zones", {"priceFrom", "priceTo"}) \o
              ItemsWith("fiboZones", {"priceFrom", "priceTo"})
    IN [i \in 1..Len(lv) |-> <<lv[i].f.price>>] \o
       [i \in 1..Len(zs) |-> <<zs[i].f.priceFrom, zs[i].f.priceTo>>]

\* C11: a malformed item of a payload (not an object, or a missing or
\* non-finite numeric field) is skipped on its own: the build does not fail and
\* yields one engine shape for each well-formed item, in order.
MalformedItemsSkipped ==
    phase = "built" => (~ret.threw /\ PricesOf(ret.value) = WellFormedPrices)

\* the same for payloads none of whose items is null
MalformedObjectsSkipped ==
    (/\ phase = "built"
     /\ \A key \in {"levels", "zones", "fiboZones"} :
           Get(arg, key).t = "arr" => \A i \in 1..Len(Get(arg, key).s) : Get(arg, key).s[i] # Null)
    => (~ret.threw /\ PricesOf(ret.value) = WellFormedPrices)

\* the payload and candle range of the spec's example
AdapterExample ==
    (/\ phase = "built"
     /\ arg = Obj([levels |-> Arr(<<Obj([price |-> Num(12345)])>>),
                   zones |-> Arr(<<Obj([priceFrom |-> Num(10000), priceTo |-> Num(11000)])>>)])
     /\ candles = <<Candle(Num(1000), Num(10500)), Candle(Num(2000), Num(10500))>>)
    => GeometryOf(ret.value) =
          << [kind |-> "level", price |-> Num(12345)],
             [kind |-> "zone", a |-> Point(Num(1000), Num(10000)),
                               b |-> Point(Num(2000), Num(11000))] >>

(***************************************************************************)
(* SpecStorage: saveDrawings and loadDrawings called on drawn inputs       *)
(***************************************************************************)
InitStorage ==
    /\ UiInitial
    /\ \/ phase = "toLoad" /\ store \in [denied : {FALSE}, item : StoredTexts]
       \/ /\ phase \in {"toLoad", "toSave"}
          /\ store \in [denied : BOOLEAN,
                        item : {NoItem, GarbageText, JsonText(JEnvelope(JNum(1), JArr(<<JLevel100>>)))}]
    /\ userShapes = <<>>
    /\ now = 1
    /\ view = NoView
    /\ ptr = NoPtr
    /\ candles = <<>>
    /\ arg = Null
    /\ ret = Returned(<<>>)

\* saveDrawings(S)
StSave ==
    /\ phase = "toSave"
    /\ \E S \in ValidLists :
          LET r == SaveDrawings(store, S, now) IN
          /\ userShapes' = S
          /\ store' = r.store
          /\ phase' = IF r.threw THEN "saveThrew" ELSE "saved"
    /\ UNCHANGED <<now, view, ptr, candles, arg, ret, uiVars>>

\* loadDrawings() right after a saveDrawings(S) that returned
StReload ==
    /\ phase = "saved"
    /\ ret' = LoadDrawings(store)
    /\ phase' = "reloaded"
    /\ UNCHANGED <<store, userShapes, now, view, ptr, candles, arg, uiVars>>

\* loadDrawings() on whatever the store holds
StLoad ==
    /\ phase = "toLoad"
    /\ ret' = LoadDrawings(store)
    /\ phase' = "loaded"
    /\ UNCHANGED <<store, userShapes, now, view, ptr, candles, arg, uiVars>>

NextStorage == StSave \/ StReload \/ StLoad

SpecStorage == InitStorage /\ [][NextStorage]_vars

\* the stored text is a JSON object (the envelope)
HasEnvelope == store.item.k = "json" /\ store.item.tree.j = "obj"
EnvField(k) == IF k \in DOMAIN store.item.tree.f THEN store.item.tree.f[k] ELSE JNull
EnvHas(k) == k \in DOMAIN store.item.tree.f

\* C1: for every structurally valid list S, saveDrawings(S) followed by
\* loadDrawings() returns S itself: same shapes, same order.
RoundTripLaw == phase = "reloaded" => ret = Returned(userShapes)

\* C2: loadDrawings returns [] whenever the envelope's version is not 1 or its
\* shapes is not an array, whatever the envelope holds.
VersionGate ==
    (/\ phase = "loaded"
     /\ HasEnvelope
     /\ \/ ~EnvHas("version")
        \/ EnvField("version") # JNum(1)
        \/ ~EnvHas("shapes")
        \/ EnvField("shapes").j # "arr")
    => ret = Returned(<<>>)

VersionGateWitness ==
    /\ phase = "loaded"
    /\ ~store.denied
    /\ HasEnvelope
    /\ EnvField("version") = JNum(2)
    /\ EnvField("shapes") = JArr(<<JLevel100>>)
    /\ ret = Returned(<<>>)

\* what the data model calls a structurally valid entry, stated on the parsed value
IsKind(e) == e.t = "obj" /\ "kind" \in DOMAIN e.f /\ e.f.kind.t = "str"
                /\ e.f.kind.s \in {"level", "trendline", "zone"}
HasNumber(o, k) == o.t = "obj" /\ k \in DOMAIN o.f /\ o.f[k].t \in {"num", "nan", "inf"}
IsEndpoint(o, k) == o.t = "obj" /\ k \in DOMAIN o.f
                       /\ HasNumber(o.f[k], "time") /\ HasNumber(o.f[k], "price")
WellFormedEntry(e) ==
    /\ IsKind(e)
    /\ "id" \in DOMAIN e.f /\ e.f.id.t = "str"
    /\ HasNumber(e, "createdAt")
    /\ e.f.kind.s = "level" => "price" \in DOMAIN e.f /\ e.f.price.t = "num"
    /\ e.f.kind.s # "level" => IsEndpoint(e, "a") /\ IsEndpoint(e, "b")

StoredShapes == [i \in 1..Len(EnvField("shapes").s) |-> ParseTree(EnvField("shapes").s[i])]

\* C3: for a version-1 envelope loadDrawings returns exactly the structurally
\* valid entries of shapes, in stored order; invalid entries are dropped one by one.
LoadKeepsValidEntries ==
    (/\ phase = "loaded"
     /\ ~store.denied
     /\ HasEnvelope
     /\ EnvHas("version") /\ EnvField("version") = JNum(1)
     /\ EnvHas("shapes") /\ EnvField("shapes").j = "arr")
    => ret = Returned(SelectSeq(StoredShapes, WellFormedEntry))

LoadKeepsValidEntriesWitness ==
    /\ phase = "loaded"
    /\ ~store.denied
    /\ store.item = JsonText(JEnvelope(JNum(1), JArr(<<JTrendMissingBPrice, JLevel100>>)))
    /\ ret = Returned(<<Level(<<"lvl", 1, 1>>, Num(1), Num(100))>>)

\* C4: loadDrawings never throws; it returns a list for every stored value, and
\* the empty list when the item is absent, unreadable or not parseable.
LoadNeverThrows ==
    phase \in {"loaded", "reloaded"} =>
        /\ ~ret.threw
        /\ ret.value \in Seq({v \in Range(ret.value) : IsValidShape(v)})
        /\ (store.denied \/ store.item.k # "json") => ret.value = <<>>

LoadNeverThrowsWitness ==
    /\ phase = "loaded"
    /\ store.denied \/ store.item = GarbageText
    /\ ret = Returned(<<>>)

(***************************************************************************)
(* ChartBoard: the component                                               *)
(***************************************************************************)
\* [...prev, s]
AppendShapeFront(list, s) == <<s>> \o list
AppendShape(list, s) == Append(list, s)

\* prev.slice(0, -1)
DropLastKeepsOne(list) == IF Len(list) <= 1 THEN list ELSE SubSeq(list, 1, Len(list) - 1)
DropLast(list) == IF list = <<>> THEN <<>> ELSE SubSeq(list, 1, Len(list) - 1)

\* x + d for a stored coordinate x and a finite delta d
AddNum(x, d) == IF x.t = "num" THEN Num(x.v + d) ELSE x

\* { ...o, <moved coordinates> }: the drag's copy of snapshot o moved by (dt, dp)
TranslateLive(s, o, dt, dp) ==
    IF Get(s, "kind") = Str("level")
    THEN Obj([s.f EXCEPT !.price = AddNum(Get(s, "price"), dp)])
    ELSE Obj([s.f EXCEPT
                 !.a = Point(AddNum(Get(Get(s, "a"), "time"), dt), AddNum(Get(Get(s, "a"), "price"), dp)),
                 !.b = Point(AddNum(Get(Get(s, "b"), "time"), dt), AddNum(Get(Get(s, "b"), "price"), dp))])

Translate(s, o, dt, dp) ==
    IF Get(o, "kind") = Str("level")
    THEN Obj([o.f EXCEPT !.price = AddNum(Get(o, "price"), dp)])
    ELSE IF Get(o, "kind") \in {Str("trendline"), Str("zone")}
    THEN Obj([o.f EXCEPT
                 !.a = Point(AddNum(Get(Get(o, "a"), "time"), dt), AddNum(Get(Get(o, "a"), "price"), dp)),
                 !.b = Point(AddNum(Get(Get(o, "b"), "time"), dt), AddNum(Get(Get(o, "b"), "price"), dp))])
    ELSE s

MapDraggedOnly(prev, st, dt, dp) ==
    LET hit == SelectSeq(prev, LAMBDA x : Get(x, "id") = st.id) IN
    [i \in 1..Len(hit) |-> Translate(hit[i], st.original, dt, dp)]

MapDraggedOrRestored(prev, st, dt, dp) ==
    IF \E i \in 1..Len(prev) : Get(prev[i], "id") = st.id
    THEN [i \in 1..Len(prev) |->
            IF Get(prev[i], "id") # st.id THEN prev[i]
            ELSE Translate(prev[i], st.original, dt, dp)]
    ELSE Append(prev, Translate(st.original, st.original, dt, dp))

\* prev.map((s) => s.id !== st.id ? s : <translated copy of st.original>)
MapDragged(prev, st, dt, dp) ==
    [i \in 1..Len(prev) |->
        IF Get(prev[i], "id") # st.id THEN prev[i] ELSE Translate(prev[i], st.original, dt, dp)]

\* userShapes.find((s) => s.id === id)
FindById(shapes, id) ==
    LET idx == {i \in 1..Len(shapes) : Get(shapes[i], "id") = id} IN
    IF idx = {} THEN Undef ELSE shapes[CHOOSE i \in idx : \A k \in idx : i <= k]

\* the persist effect: saveDrawings(userShapes) after a render that changed userShapes
Persisted(st, shapes, at) == SaveDrawings(st, shapes, at).store

\* the rank given to a shape entering the store
NextBirth(b) == IF b = <<>> THEN 1 ELSE 1 + Max(b[1], b[Len(b)])

\* the pixels a pointer event can carry (the last one lies outside every
\* viewport) and the viewports the chart can show (a pan along the time axis)
Pointers == {[x |-> 0, y |-> 0], [x |-> 6, y |-> 12], [x |-> 12, y |-> 0]}
FirstView == [t0 |-> 0, p0 |-> 100, w |-> 6, h |-> 12]
Views == {FirstView, [t0 |-> 6, p0 |-> 100, w |-> 6, h |-> 12]}

\* what localStorage may hold when the component is constructed
JDupA == JLevel(<<"lvl", 0, 0>>, JNum(1), JNum(100))
JDupB == JLevel(<<"lvl", 0, 0>>, JNum(2), JNum(94))
MainStoredTexts ==
    { NoItem,
      GarbageText,
      JsonText(JEnvelope(JNum(2), JArr(<<JLevel100>>))),
      JsonText(JEnvelope(JNum(1), JArr(<<
          JSeg("zone", <<"zone", 1, 0>>, JNum(1), JPoint(JNum(0), JNum(100)), JPoint(JNum(6), JNum(88))),
          JTrendMissingBPrice,
          JLevel(<<"lvl", 1, 0>>, JNum(1), JNum(100))>>))),
      JsonText(JEnvelope(JNum(1), JArr(<<JDupA, JDupB>>))),
      JsonText(JEnvelope(JNum(1), JArr(<<
          JSeg("trendline", <<"tl", 2, 2>>, JNum(2), JPoint(JHuge, JNum(94)), JPoint(JNum(6), JNum(100)))>>))) }

MainPayloads ==
    { Obj([levels |-> Arr(<<Obj([price |-> Num(100)])>>)]),
      Obj([zones |-> Arr(<<>>)]) }

MainCandles == <<Candle(Num(0), Num(100)), Candle(Num(6), Num(94))>>

\* the render effect after a commit: the overlay is drawn with the current
\* viewport when one of userShapes, engineShapes, draftShape, selectedId was
\* set to a new value or a new object; redrawn tells whether one was
RenderOverlay(redrawn) == IF redrawn THEN view ELSE overlay

\* construction: the useState initialisers have run, no effect has
Init ==
    /\ store \in [denied : {FALSE}, item : MainStoredTexts]
    /\ userShapes = LoadDrawings(store).value
    /\ birth = [i \in 1..Len(userShapes) |-> i]
    /\ now = 1
    /\ view = FirstView
    /\ ptr = NoPtr
    /\ candles = MainCandles
    /\ arg = Null
    /\ ret = Null
    /\ phase = "constructed"
    /\ tool = "select"
    /\ engineShapes = <<>>
    /\ draftShape = Null
    /\ selectedId = Null
    /\ interaction = [mode |-> "none"]
    /\ drag = NoDrag
    /\ lastOp = "init"
    /\ events = 0
    /\ net = NoNet
    /\ overlay = Null

feedVars == <<view, ptr, candles, arg, ret, net>>

\* first commit: the persist effect and the chart's creation (toolCtx exists from here on)
Mount ==
    /\ phase = "constructed"
    /\ phase' = "mounted"
    /\ store' = Persisted(store, userShapes, now)
    /\ overlay' = RenderOverlay(TRUE)
    /\ lastOp' = "mount"
    /\ UNCHANGED <<events, userShapes, now, feedVars, tool, engineShapes, draftShape,
                   selectedId, interaction, birth, drag>>

\* setTool(t)
SetTool(t) ==
    /\ phase = "mounted"
    /\ events < MaxEvents /\ events' = events + 1
    /\ t # tool
    /\ tool' = t
    /\ overlay' = RenderOverlay(FALSE)
    /\ lastOp' = "tool"
    /\ UNCHANGED <<store, userShapes, now, feedVars, phase, engineShapes, draftShape,
                   selectedId, interaction, birth, drag>>

\* onPointerDown with tool 'level'
PointerDownLevel(p, rnd) ==
    /\ phase = "mounted"
    /\ events < MaxEvents /\ events' = events + 1 /\ tool = "level"
    /\ overlay' = RenderOverlay(YToPrice(view, p.y) # Null)
    /\ lastOp' = "down"
    /\ LET price == YToPrice(view, p.y) IN
       IF price = Null
       THEN UNCHANGED <<store, userShapes, selectedId, birth>>
       ELSE /\ Len(userShapes) < MaxShapes
            /\ LET s == Level(NewId("lvl", rnd, now), Num(now), price) IN
               /\ userShapes' = AppendShape(userShapes, s)
               /\ birth' = AppendShape(birth, NextBirth(birth))
               /\ selectedId' = Get(s, "id")
               /\ store' = Persisted(store, userShapes', now)
    /\ UNCHANGED <<now, feedVars, phase, tool, engineShapes, draftShape, interaction, drag>>

\* onPointerDown with tool 'trendline' or 'zone'
PointerDownDraw(p, rnd) ==
    /\ phase = "mounted"
    /\ events < MaxEvents /\ events' = events + 1 /\ tool \in {"trendline", "zone"}
    /\ overlay' = RenderOverlay(ToPoint(view, p) # Null)
    /\ lastOp' = "down"
    /\ LET startPoint == ToPoint(view, p) IN
       IF startPoint = Null
       THEN UNCHANGED <<draftShape, interaction, selectedId, drag>>
       ELSE /\ draftShape' = Seg(tool, NewId(IF tool = "trendline" THEN "tl" ELSE "zone", rnd, now),
                                 Num(now), startPoint, startPoint)
            /\ interaction' = [mode |-> "drawing", tool |-> tool, start |-> p]
            /\ selectedId' = Null
            /\ drag' = NoDrag
    /\ UNCHANGED <<store, userShapes, now, feedVars, phase, tool, engineShapes, birth>>

\* the list onPointerDown hit-tests and searches: userShapes
HitTestedShapesWithEngine(user, engine) == user \o engine
HitTestedShapes(user, engine) == user

\* onPointerDown with tool 'select'
PointerDownSelect(p) ==
    /\ phase = "mounted"
    /\ events < MaxEvents /\ events' = events + 1 /\ tool = "select"
    /\ lastOp' = "down"
    /\ LET hit == HitTest(HitTestedShapes(userShapes, engineShapes), view, p) IN
       IF hit = Null
       THEN /\ selectedId' = Null
            /\ interaction' = [mode |-> "none"]
            /\ drag' = [NoDrag EXCEPT !.last = p]
       ELSE LET shape == FindById(HitTestedShapes(userShapes, engineShapes), Get(hit, "id")) IN
            IF shape = Undef
            THEN UNCHANGED <<selectedId, interaction, drag>>
            ELSE /\ selectedId' = Get(shape, "id")
                 /\ interaction' = [mode |-> "dragging", id |-> Get(shape, "id"),
                                    start |-> p, original |-> shape]
                 /\ drag' = [anchor |-> ToPoint(view, p), stable |-> TRUE,
                             last |-> Null, moves |-> 0]
    /\ overlay' = RenderOverlay(selectedId' # selectedId)
    /\ UNCHANGED <<store, userShapes, now, feedVars, phase, tool, engineShapes, draftShape, birth>>

\* onPointerMove
PointerMove(p) ==
    /\ phase = "mounted"
    /\ events < MaxEvents /\ events' = events + 1
    /\ overlay' = RenderOverlay(
          \/ /\ interaction.mode = "drawing" /\ ToPoint(view, p) # Null /\ draftShape # Null
          \/ /\ interaction.mode = "dragging"
             /\ ToPoint(view, interaction.start) # Null /\ ToPoint(view, p) # Null)
    /\ lastOp' = "move"
    /\ IF interaction.mode = "drawing"
       THEN /\ LET pt == ToPoint(view, p) IN
               IF pt = Null \/ draftShape = Null
                  \/ Get(draftShape, "kind") \notin {Str("trendline"), Str("zone")}
               THEN UNCHANGED draftShape
               ELSE draftShape' = Obj([draftShape.f EXCEPT !.b = pt])
            /\ UNCHANGED <<store, userShapes, drag>>
       ELSE IF interaction.mode = "dragging"
       THEN /\ LET startPt == ToPoint(view, interaction.start)
                   nowPt == ToPoint(view, p)
               IN IF startPt = Null \/ nowPt = Null
                  THEN /\ drag' = [drag EXCEPT !.last = p]
                       /\ UNCHANGED <<store, userShapes>>
                  ELSE /\ userShapes' =
                             MapDragged(userShapes, interaction,
                                        Get(nowPt, "time").v - Get(startPt, "time").v,
                                        Get(nowPt, "price").v - Get(startPt, "price").v)
                       /\ store' = Persisted(store, userShapes', now)
                       /\ drag' = [drag EXCEPT !.last = p, !.moves = Min(2, @ + 1)]
            /\ UNCHANGED draftShape
       ELSE UNCHANGED <<store, userShapes, draftShape, drag>>
    /\ UNCHANGED <<now, feedVars, phase, tool, engineShapes, selectedId, interaction, birth>>

\* finalized: the draft with b replaced by the released point
FinalizedKeepingB(prev, endPoint) == prev
Finalized(prev, endPoint) ==
    IF Get(prev, "kind") \in {Str("trendline"), Str("zone")}
    THEN Obj([prev.f EXCEPT !.b = endPoint])
    ELSE prev

\* onPointerUp
PointerUp(p) ==
    /\ phase = "mounted"
    /\ events < MaxEvents /\ events' = events + 1
    /\ overlay' = RenderOverlay(interaction.mode = "drawing" /\ draftShape # Null)
    /\ lastOp' = "up"
    /\ interaction' = [mode |-> "none"]
    /\ drag' = NoDrag
    /\ IF interaction.mode = "drawing"
       THEN LET endPoint == ToPoint(view, p) IN
            IF endPoint = Null \/ draftShape = Null
            THEN /\ draftShape' = Null
                 /\ UNCHANGED <<store, userShapes, selectedId, birth>>
            ELSE /\ Len(userShapes) < MaxShapes
                 /\ LET finalized == Finalized(draftShape, endPoint)
                    IN /\ userShapes' = AppendShape(userShapes, finalized)
                       /\ birth' = AppendShape(birth, NextBirth(birth))
                       /\ selectedId' = Get(finalized, "id")
                       /\ store' = Persisted(store, userShapes', now)
                 /\ draftShape' = Null
       ELSE UNCHANGED <<store, userShapes, draftShape, selectedId, birth>>
    /\ UNCHANGED <<now, feedVars, phase, tool, engineShapes>>

\* setSelectedId(null) of undo() and clear()
SelectionAfterRemovalKept(sel) == sel
SelectionAfterRemoval(sel) == Null

\* undo()
Undo ==
    /\ phase = "mounted"
    /\ events < MaxEvents /\ events' = events + 1
    /\ userShapes' = DropLast(userShapes)
    /\ birth' = DropLast(birth)
    /\ selectedId' = SelectionAfterRemoval(selectedId)
    /\ store' = Persisted(store, userShapes', now)
    /\ overlay' = RenderOverlay(TRUE)
    /\ lastOp' = "undo"
    /\ UNCHANGED <<now, feedVars, phase, tool, engineShapes, draftShape, interaction, drag>>

\* clear()
Clear ==
    /\ phase = "mounted"
    /\ events < MaxEvents /\ events' = events + 1
    /\ userShapes' = <<>>
    /\ birth' = <<>>
    /\ selectedId' = SelectionAfterRemoval(selectedId)
    /\ store' = Persisted(store, userShapes', now)
    /\ overlay' = RenderOverlay(TRUE)
    /\ lastOp' = "clear"
    /\ UNCHANGED <<now, feedVars, phase, tool, engineShapes, draftShape, interaction, drag>>

\* save()
Save ==
    /\ phase = "mounted"
    /\ events < MaxEvents /\ events' = events + 1
    /\ store' = Persisted(store, userShapes, now)
    /\ overlay' = RenderOverlay(FALSE)
    /\ lastOp' = "save"
    /\ UNCHANGED <<userShapes, now, feedVars, phase, tool, engineShapes, draftShape,
                   selectedId, interaction, birth, drag>>

\* setEngineShapes(next)
SetEngineShapesMerging(prev, next) == prev \o next
SetEngineShapes(prev, next) == next

\* applyAnnotations(annotationsJson) through the imperative handle; ret is what
\* the caller gets: Thrown when the adapter's error propagates
ApplyAnnotationsEndingGesture(ann, rnds) ==
    /\ phase = "mounted"
    /\ events < MaxEvents /\ events' = events + 1
    /\ LET r == BuildEngineShapes(ann, candles, now, rnds) IN
       engineShapes' = IF r.threw THEN engineShapes ELSE SetEngineShapes(engineShapes, r.value)
    /\ arg' = ann
    /\ ret' = (IF BuildEngineShapes(ann, candles, now, rnds).threw THEN Thrown ELSE Returned(Undef))
    /\ overlay' = RenderOverlay(~BuildEngineShapes(ann, candles, now, rnds).threw)
    /\ lastOp' = "apply"
    /\ interaction' = [mode |-> "none"]
    /\ UNCHANGED <<store, userShapes, now, view, ptr, candles, net, phase, tool, draftShape,
                   selectedId, birth, drag>>

ApplyAnnotations(ann, rnds) ==
    /\ phase = "mounted"
    /\ events < MaxEvents /\ events' = events + 1
    /\ LET r == BuildEngineShapes(ann, candles, now, rnds) IN
       engineShapes' = IF r.threw THEN engineShapes ELSE SetEngineShapes(engineShapes, r.value)
    /\ arg' = ann
    /\ ret' = (IF BuildEngineShapes(ann, candles, now, rnds).threw THEN Thrown ELSE Returned(Undef))
    /\ overlay' = RenderOverlay(~BuildEngineShapes(ann, candles, now, rnds).threw)
    /\ lastOp' = "apply"
    /\ UNCHANGED <<store, userShapes, now, view, ptr, candles, net, phase, tool, draftShape,
                   selectedId, interaction, birth, drag>>

\* the chart's viewport changes (pan, zoom, resize, new data)
ViewChange(v) ==
    /\ phase = "mounted"
    /\ events < MaxEvents /\ events' = events + 1
    /\ v # view
    /\ view' = v
    /\ drag' = IF interaction.mode = "dragging" THEN [drag EXCEPT !.stable = FALSE] ELSE drag
    /\ overlay' = RenderOverlay(FALSE)
    /\ lastOp' = "view"
    /\ UNCHANGED <<store, userShapes, now, ptr, candles, arg, ret, net, phase, tool, engineShapes,
                   draftShape, selectedId, interaction, birth>>

Next ==
    \/ Mount
    \/ \E t \in {"select", "level", "trendline", "zone"} : SetTool(t)
    \/ \E p \in Pointers, rnd \in 0..MaxRnd : PointerDownLevel(p, rnd)
    \/ \E p \in Pointers, rnd \in 0..MaxRnd : PointerDownDraw(p, rnd)
    \/ \E p \in Pointers : PointerDownSelect(p)
    \/ \E p \in Pointers : PointerMove(p)
    \/ \E p \in Pointers : PointerUp(p)
    \/ Undo
    \/ Clear
    \/ Save
    \/ \E ann \in MainPayloads : \E rnds \in [1..ItemCount(ann) -> 0..MaxRnd] :
          ApplyAnnotations(ann, rnds)
    \/ \E v \in Views : ViewChange(v)

Spec == Init /\ [][Next]_vars


\* the shape list of the persisted envelope, as JSON.parse reads it back
PersistedShapes == ParseTree(EnvField("shapes"))

\* every number a shape carries is finite
HasOnlyFiniteNumbers(s) ==
    /\ Get(s, "createdAt").t = "num"
    /\ IF Get(s, "kind") = Str("level")
       THEN Get(s, "price").t = "num"
       ELSE \A e \in {"a", "b"} : \A c \in {"time", "price"} : Get(Get(s, e), c).t = "num"

\* the persisted envelope has version 1 and its shapes equal the store's list
EnvelopeMatchesStore ==
    /\ HasEnvelope
    /\ EnvField("version") = JNum(1)
    /\ PersistedShapes = Arr(userShapes)

\* C5: after every mutation of the user shape store (Level creation, drawing
\* commit, drag pointer-move, undo, clear) and before the next event, the
\* persisted envelope has version 1 and its shapes equal the store's current
\* shape list.
WriteThrough ==
    [][userShapes' # userShapes => EnvelopeMatchesStore']_vars

\* the same for mutations that leave finite numbers only in the store
WriteThroughFinite ==
    [][(/\ userShapes' # userShapes
        /\ \A i \in 1..Len(userShapes') : HasOnlyFiniteNumbers(userShapes'[i]))
       => EnvelopeMatchesStore']_vars

\* C6: undo removes exactly the last element of the user shape store, leaves
\* every other user shape unchanged and in order, and never changes the engine
\* shapes; undo on an empty store changes nothing.
UndoRemovesLast ==
    [][(lastOp' = "undo" /\ events' # events) =>
          /\ engineShapes' = engineShapes
          /\ Len(userShapes') = Max(Len(userShapes) - 1, 0)
          /\ \A i \in 1..Len(userShapes') : userShapes'[i] = userShapes[i]]_vars

UndoRemovesLastWitness ==
    /\ lastOp = "undo"
    /\ engineShapes # <<>>
    /\ Len(userShapes) = 1
    /\ Get(userShapes[1], "id") = Str(<<"zone", 1, 0>>)

\* the snapshot o moved by (dt, dp): every time plus dt, every price plus dp
ShiftedPoint(pt, dt, dp) ==
    Point(Num(Get(pt, "time").v + dt), Num(Get(pt, "price").v + dp))
Shifted(o, dt, dp) ==
    IF Get(o, "kind") = Str("level")
    THEN Obj([o.f EXCEPT !.price = Num(@.v + dp)])
    ELSE Obj([o.f EXCEPT !.a = ShiftedPoint(@, dt, dp), !.b = ShiftedPoint(@, dt, dp)])

\* C7: while a shape is dragged under a fixed coordinate mapping, the stored
\* shape after a pointer-move equals the original snapshot translated by
\* (time of the current pointer - time of the drag anchor, price of the current
\* pointer - price of the drag anchor), however many moves came before.
DragNoDrift ==
    (/\ lastOp = "move" /\ interaction.mode = "dragging"
     /\ drag.stable /\ drag.anchor # Null
     /\ drag.last # Null /\ ToPoint(view, drag.last) # Null) =>
        LET cur == ToPoint(view, drag.last)
            dt == Get(cur, "time").v - Get(drag.anchor, "time").v
            dp == Get(cur, "price").v - Get(drag.anchor, "price").v
        IN \A i \in 1..Len(userShapes) :
              Get(userShapes[i], "id") = interaction.id =>
                  userShapes[i] = Shifted(interaction.original, dt, dp)

DragNoDriftWitness ==
    /\ lastOp = "move" /\ interaction.mode = "dragging"
    /\ drag.stable /\ drag.moves = 2
    /\ interaction.start = [x |-> 6, y |-> 12] /\ drag.last = [x |-> 0, y |-> 0]
    /\ Get(interaction.original, "kind") = Str("zone")
    /\ \E i \in 1..Len(userShapes) :
          /\ Get(userShapes[i], "id") = interaction.id
          /\ Get(userShapes[i], "a") = Point(Num(-6), Num(112))
          /\ Get(userShapes[i], "b") = Point(Num(0), Num(100))

\* the topmost shape under pointer p: the last one in the list that is hit
HitIdx(shapes, v, p) == {i \in 1..Len(shapes) : HitsShape(shapes[i], v, p)}
TopHit(shapes, v, p) ==
    LET h == HitIdx(shapes, v, p) IN
    IF h = {} THEN Null
    ELSE Obj([id |-> Get(shapes[CHOOSE i \in h : \A k \in h : k <= i], "id")])

\* C9: the store is kept in creation order whatever creates, drags, undos and
\* clears ran; hitTest returns the most recently created shape under the
\* pointer, null when none is hit, and a select press starts its drag on it.
TopmostHit ==
    phase = "mounted" =>
        /\ Len(birth) = Len(userShapes)
        /\ \A i, j \in 1..Len(birth) : i < j => birth[i] < birth[j]
        /\ \A p \in Pointers : HitTest(userShapes, view, p) = TopHit(userShapes, view, p)
        /\ (lastOp = "down" /\ tool = "select" /\ interaction.mode = "dragging") =>
              Obj([id |-> interaction.id]) = TopHit(userShapes, view, interaction.start)

TopmostHitWitness ==
    /\ lastOp = "down" /\ tool = "select" /\ interaction.mode = "dragging"
    /\ Len(userShapes) = 2
    /\ HitsShape(userShapes[1], view, interaction.start)
    /\ HitsShape(userShapes[2], view, interaction.start)
    /\ Get(userShapes[1], "id") # Get(userShapes[2], "id")
    /\ interaction.id = Get(userShapes[2], "id")


\* a pointer event of any kind at pixel p
PointerEventAt(p) ==
    \/ PointerMove(p)
    \/ PointerUp(p)
    \/ PointerDownSelect(p)
    \/ \E rnd \in 0..MaxRnd : PointerDownLevel(p, rnd) \/ PointerDownDraw(p, rnd)

\* what a gesture consists of
gestureVars == <<interaction, draftShape, userShapes, selectedId>>

\* C19: a pointer event (down, move or up) at a position the bridge cannot map
\* to a point is ignored in every controller state: interaction, draft, user
\* shapes and selection stay as they were.
UnmappablePointerIgnored ==
    [][\A p \in Pointers :
          (ToPoint(view, p) = Null /\ PointerEventAt(p)) => UNCHANGED gestureVars]_vars

\* the same for pointer-move events alone
UnmappableMoveIgnored ==
    [][\A p \in Pointers :
          (ToPoint(view, p) = Null /\ PointerMove(p)) => UNCHANGED gestureVars]_vars


\* every user shape of the state is still in the store after the step, at its place
ShapesKept ==
    /\ Len(userShapes') >= Len(userShapes)
    /\ \A i \in 1..Len(userShapes) : Get(userShapes'[i], "id") = Get(userShapes[i], "id")

\* C20: a user shape leaves the store only through undo or clear-all: no
\* pointer gesture, drag, manual save or annotation sync removes one, and
\* clear-all removes all of them.
RemovedOnlyByUndoOrClear ==
    [][/\ ~ShapesKept => lastOp' \in {"undo", "clear"}
       /\ (lastOp' = "clear" /\ events' # events) => userShapes' = <<>>]_vars

RemovedOnlyByUndoOrClearWitness ==
    /\ lastOp = "clear" /\ userShapes = <<>>
    /\ interaction.mode = "dragging" /\ drag.moves >= 1
    /\ engineShapes # <<>>


(***************************************************************************)
(* ChartBoard: history fetch, live feed, engine sync and their teardown    *)
(***************************************************************************)
\* numbers outside the 32-bit range and fractions: Ms(k, r) is 1000 * k + r,
\* Frac(v, m) is v + m / 1000 with 0 < m < 1000
Ms(k, r) == [t |-> "num", k |-> k, r |-> r]
Frac(v, m) == [t |-> "num", v |-> v, milli |-> m]

MsThreshold == 2000000000

\* t > 2000000000 (false for a string that is no number and for undefined)
ExceedsThreshold(x) ==
    IF x.t # "num" THEN FALSE
    ELSE IF "k" \in DOMAIN x
         THEN x.k > MsThreshold \div 1000 \/ (x.k = MsThreshold \div 1000 /\ x.r > 0)
    ELSE IF "milli" \in DOMAIN x THEN x.v >= MsThreshold
    ELSE x.v > MsThreshold

\* t / 1000
Div1000(x) ==
    CASE x.t = "nan" -> NaN
      [] x.t = "num" /\ "k" \in DOMAIN x -> IF x.r = 0 THEN Num(x.k) ELSE Frac(x.k, x.r)
      [] x.t = "num" /\ DOMAIN x = {"t", "v"} ->
            IF x.v % 1000 = 0 THEN Num(x.v \div 1000) ELSE Frac(x.v \div 1000, x.v % 1000)

\* new Date(t).getTime() for the ISO strings of the feed
IsoT0 == "2023-11-14T22:13:20Z"
DateGetTime(x) == IF x.s = IsoT0 THEN Ms(1700000000, 0) ELSE NaN

\* the time a history candle is stored with
HistoryTime(raw) ==
    LET t1 == IF TypeOf(raw) = "string" THEN Div1000(DateGetTime(raw)) ELSE raw
    IN IF ExceedsThreshold(t1) THEN Div1000(t1) ELSE t1

\* the time a streamed candle is stored with
StreamTime(raw) == IF ExceedsThreshold(raw) THEN Div1000(raw) ELSE raw

\* a.time - b.time < 0 on stored numeric times
TimeLess(a, b) ==
    LET milli(x) == IF "milli" \in DOMAIN x THEN x.milli ELSE 0
    IN a.v < b.v \/ (a.v = b.v /\ milli(a) < milli(b))

\* .sort((a, b) => a.time - b.time), stable
RECURSIVE InsertByTime(_, _)
InsertByTime(sorted, c) ==
    IF sorted = <<>> THEN <<c>>
    ELSE IF TimeLess(Get(c, "time"), Get(sorted[Len(sorted)], "time"))
         THEN Append(InsertByTime(SubSeq(sorted, 1, Len(sorted) - 1), c), sorted[Len(sorted)])
         ELSE Append(sorted, c)
RECURSIVE SortByTime(_)
SortByTime(data) ==
    IF data = <<>> THEN <<>>
    ELSE InsertByTime(SortByTime(SubSeq(data, 1, Len(data) - 1)), data[Len(data)])

\* data.map(...).sort(...) of fetchData
FormatHistory(data) ==
    SortByTime([i \in 1..Len(data) |->
                   Candle(HistoryTime(Get(data[i], "time")), Get(data[i], "close"))])

\* numeric times, each below the next
Ascending(buf) ==
    \A i \in 1..Len(buf) :
        /\ Get(buf[i], "time").t = "num"
        /\ i < Len(buf) =>
              /\ Get(buf[i + 1], "time").t = "num"
              /\ TimeLess(Get(buf[i], "time"), Get(buf[i + 1], "time"))

\* the chart library: series.setData(data) checks the order of its data in
\* development builds only and may fail on a removed chart; series.update(c)
\* rejects a candle older than the last one, and may reject a time that is no number
SetDataOutcomes(data, removed) ==
    IF removed \/ ~Ascending(data) THEN {"ok", "throws"} ELSE {"ok"}
UpdateOutcomes(series, c) ==
    IF Get(c, "time").t # "num" THEN {"ok", "throws"}
    ELSE IF series = <<>> THEN {"ok"}
    ELSE IF Get(series[Len(series)], "time").t # "num" THEN {"ok", "throws"}
    ELSE IF TimeLess(Get(c, "time"), Get(series[Len(series)], "time")) THEN {"throws"}
    ELSE {"ok"}

\* last && last.time === c.time ? buffer[length - 1] = c : buffer.push(c)
MergeCandle(buf, c) ==
    IF buf # <<>> /\ Get(buf[Len(buf)], "time") = Get(c, "time")
    THEN [buf EXCEPT ![Len(buf)] = c]
    ELSE Append(buf, c)

\* ws.close()
CloseSocketNot(open, id) == open
CloseSocket(open, id) == {c \in open : c.id # id}

\* the symbol effect's body: fetchData() is issued, wsRef.current is closed
\* if set, a new WebSocket is opened for the symbol and kept in wsRef
OpenFeed(n) ==
    [n EXCEPT !.fetches = @ \cup {n.symbol},
              !.open = CloseSocket(@, n.wsRef) \cup {[id |-> n.made + 1, symbol |-> n.symbol]},
              !.wsRef = n.made + 1,
              !.made = n.made + 1]

Symbols == {"A", "B"}

\* what the market-data server sends as a candle's time
RawTimes == {Num(1700000000), Num(1700000060), Ms(1700000000, 500), Str(IsoT0)}
HistoryResponses ==
    { <<>>,
      <<Candle(Num(1700000060), Num(1)), Candle(Num(1700000000), Num(1))>>,
      <<Candle(Str(IsoT0), Num(1)), Candle(Ms(1700000060, 0), Num(1))>>,
      <<Candle(Num(1700000000), Num(1)), Candle(Ms(1700000000, 0), Num(1))>> }

\* what the annotation server sends
FeedPayloads ==
    { Obj([levels |-> Arr(<<Obj([price |-> Num(100)])>>)]),
      Obj([zones |-> Arr(<<Obj([priceFrom |-> Num(90), priceTo |-> Num(95)])>>),
           fiboZones |-> Arr(<<>>)]),
      Obj([levels |-> Arr(<<Null, Obj([price |-> Num(94)])>>)]) }

InitFeed ==
    /\ store = [denied |-> FALSE, item |-> NoItem]
    /\ userShapes = <<>>
    /\ now = 1
    /\ view = FirstView
    /\ ptr = NoPtr
    /\ candles = <<>>
    /\ arg = Null
    /\ ret = Null
    /\ phase = "constructed"
    /\ tool = "select"
    /\ engineShapes = <<>>
    /\ draftShape = Null
    /\ selectedId = Null
    /\ interaction = [mode |-> "none"]
    /\ birth = <<>>
    /\ drag = NoDrag
    /\ lastOp = "init"
    /\ events = 0
    /\ net = [NoNet EXCEPT !.alive = TRUE, !.symbol = "A"]
    /\ overlay = Null

drawVars == <<store, userShapes, now, view, ptr, tool, draftShape, selectedId, interaction,
              birth, drag, overlay>>

\* first commit: the chart and its series are created, the symbol effect runs
FeedMount ==
    /\ phase = "constructed"
    /\ phase' = "mounted"
    /\ net' = OpenFeed(net)
    /\ lastOp' = "mount"
    /\ UNCHANGED <<drawVars, candles, arg, ret, engineShapes, events>>

\* the symbol prop changes: the effect's cleanup closes its socket, the effect runs again
SymbolChange(s) ==
    /\ phase = "mounted"
    /\ events < MaxEvents /\ events' = events + 1
    /\ s # net.symbol
    /\ net' = OpenFeed([net EXCEPT !.symbol = s, !.open = CloseSocket(@, net.wsRef)])
    /\ lastOp' = "symbol"
    /\ UNCHANGED <<drawVars, candles, arg, ret, engineShapes, phase>>

\* the component is unmounted: both cleanups run
Unmount ==
    /\ phase = "mounted"
    /\ events < MaxEvents /\ events' = events + 1
    /\ phase' = "unmounted"
    /\ net' = [net EXCEPT !.alive = FALSE, !.open = CloseSocket(@, net.wsRef)]
    /\ lastOp' = "unmount"
    /\ UNCHANGED <<drawVars, candles, arg, ret, engineShapes>>

\* the continuation of fetchData after await: the response for symbol sym
\* arrives (ok is false for a non-ok response and for a rejected request)
HistoryArrives(sym, ok, data, outcome) ==
    /\ phase \in {"mounted", "unmounted"}
    /\ events < MaxEvents /\ events' = events + 1
    /\ sym \in net.fetches
    /\ LET formatted == FormatHistory(data) IN
       /\ outcome \in SetDataOutcomes(formatted, ~net.alive)
       /\ IF ok /\ outcome = "ok"
          THEN /\ candles' = formatted
               /\ net' = [net EXCEPT !.fetches = @ \ {sym}, !.series = formatted]
          ELSE /\ candles' = candles
               /\ net' = [net EXCEPT !.fetches = @ \ {sym}]
    /\ arg' = Arr(data)
    /\ ret' = [sym |-> sym, ok |-> ok /\ outcome = "ok", resp |-> ok]
    /\ lastOp' = "history"
    /\ UNCHANGED <<drawVars, engineShapes, phase>>

\* syncEngine() up to its first await
SyncClick ==
    /\ phase = "mounted"
    /\ events < MaxEvents /\ events' = events + 1
    /\ net' = [net EXCEPT !.status = [k |-> "syncing"],
                           !.syncs = @ \cup {[n |-> net.started + 1, symbol |-> net.symbol]},
                           !.started = @ + 1]
    /\ lastOp' = "syncClick"
    /\ UNCHANGED <<drawVars, candles, arg, ret, engineShapes, phase>>

\* what a mounted component does with the response of the sync req:
\* syncEngine sets the status and, on success, the engine shapes, whatever
\* other sync has been started or handled meanwhile
HandleSync(req, ok, r, n, shapes) ==
    LET seen == IF req.n > n.handled THEN req.n ELSE n.handled IN
    IF ~ok \/ r.threw
    THEN [net |-> [n EXCEPT !.syncs = @ \ {req}, !.status = [k |-> "error"], !.handled = seen],
          engineShapes |-> shapes]
    ELSE [net |-> [n EXCEPT !.syncs = @ \ {req}, !.handled = seen,
                            !.status = [k |-> "synced", symbol |-> req.symbol]],
          engineShapes |-> SetEngineShapes(shapes, r.value)]

\* the continuation of syncEngine after await: the response of the sync req
\* arrives; state setters of an unmounted component change nothing
SyncArrives(req, ok, payload, rnds) ==
    /\ phase \in {"mounted", "unmounted"}
    /\ events < MaxEvents /\ events' = events + 1
    /\ req \in net.syncs
    /\ LET r == BuildEngineShapes(payload, candles, now, rnds) IN
       IF ~net.alive
       THEN /\ net' = [net EXCEPT !.syncs = @ \ {req}]
            /\ UNCHANGED engineShapes
       ELSE LET h == HandleSync(req, ok, r, net, engineShapes) IN
            /\ net' = h.net
            /\ engineShapes' = h.engineShapes
    /\ arg' = payload
    /\ ret' = [sym |-> req.symbol, ok |-> ok, resp |-> ok, n |-> req.n]
    /\ lastOp' = "sync"
    /\ UNCHANGED <<drawVars, candles, phase>>

\* ws.onmessage of an open connection c with a candle whose time is raw
StreamMessage(c, raw, outcome) ==
    /\ phase = "mounted"
    /\ events < MaxEvents /\ events' = events + 1
    /\ c \in net.open
    /\ LET candle == Candle(StreamTime(raw), Num(2)) IN
       /\ outcome \in UpdateOutcomes(net.series, candle)
       /\ IF outcome = "ok"
          THEN /\ candles' = MergeCandle(candles, candle)
               /\ Len(candles') <= MaxBuf
               /\ net' = [net EXCEPT !.series = MergeCandle(@, candle)]
          ELSE UNCHANGED <<candles, net>>
    /\ arg' = raw
    /\ ret' = [sym |-> c.symbol, ok |-> outcome = "ok"]
    /\ lastOp' = "message"
    /\ UNCHANGED <<drawVars, engineShapes, phase>>

NextFeed ==
    \/ FeedMount
    \/ \E s \in Symbols : SymbolChange(s)
    \/ Unmount
    \/ \E sym \in Symbols, ok \in BOOLEAN, data \in HistoryResponses, outcome \in {"ok", "throws"} :
          HistoryArrives(sym, ok, data, outcome)
    \/ SyncClick
    \/ \E req \in net.syncs, ok \in BOOLEAN, payload \in FeedPayloads :
          \E rnds \in [1..ItemCount(payload) -> {0}] : SyncArrives(req, ok, payload, rnds)
    \/ \E payload \in FeedPayloads : \E rnds \in [1..ItemCount(payload) -> {0}] :
          ApplyAnnotations(payload, rnds)
    \/ \E c \in net.open, raw \in RawTimes, outcome \in {"ok", "throws"} :
          StreamMessage(c, raw, outcome)

SpecFeed == InitFeed /\ [][NextFeed]_vars


\* a sync that the claims call successful has just been handled by a mounted
\* component: applyAnnotations, or syncEngine's continuation on an ok response
SyncedOk ==
    /\ events' # events
    /\ net.alive
    /\ lastOp' = "apply" \/ (lastOp' = "sync" /\ ret'.ok)

NoNullItems(p) ==
    \A key \in {"levels", "zones", "fiboZones"} :
        Get(p, key).t = "arr" => \A i \in 1..Len(Get(p, key).s) : Get(p, key).s[i] # Null

\* C12: after every successful sync (syncEngine with an ok response, or
\* applyAnnotations) the engine shape set is exactly what the payload's
\* well-formed items yield, with nothing kept from an earlier sync; an absent
\* levels, zones or fiboZones array contributes nothing.
EngineSetReplaced ==
    [][SyncedOk => PricesOf(engineShapes') = WellFormedPrices']_vars

\* the same for payloads none of whose items is null
EngineSetReplacedByObjects ==
    [][(SyncedOk /\ NoNullItems(arg')) => PricesOf(engineShapes') = WellFormedPrices']_vars


\* a streamed candle has just been handed to the series and merged into the buffer
Merged ==
    /\ events' # events
    /\ lastOp' = "message"
    /\ ret'.ok

LastBuffered(buf) == Get(buf[Len(buf)], "time")

\* C13: a live update whose time is 1700000000500 is merged into the candle
\* buffer with time 1700000000 (milliseconds become whole seconds).
MillisMergedAsSeconds ==
    [][(Merged /\ arg' = Ms(1700000000, 500)) => LastBuffered(candles') = Num(1700000000)]_vars

\* a time in milliseconds that is a whole number of seconds is merged as that
\* number of seconds, by the stream and by the history load
WholeSecondMillis ==
    /\ StreamTime(Ms(1700000060, 0)) = Num(1700000060)
    /\ HistoryTime(Ms(1700000060, 0)) = Num(1700000060)

\* C14: a streamed candle is stored with the time a history candle carrying
\* the same incoming value (ISO string, whole seconds or milliseconds) is stored with.
StreamNormalizesLikeHistory ==
    [][Merged => LastBuffered(candles') = HistoryTime(arg')]_vars

\* the same for incoming values that are numbers
StreamNormalizesNumbersLikeHistory ==
    [][(Merged /\ TypeOf(arg') = "number") => LastBuffered(candles') = HistoryTime(arg')]_vars


\* the whole seconds an incoming time value stands for
WholeSeconds(raw) ==
    IF TypeOf(raw) = "string" THEN Num(1700000000)
    ELSE IF "k" \in DOMAIN raw THEN Num(raw.k)
    ELSE IF raw.v > MsThreshold THEN Num(raw.v \div 1000)
    ELSE raw

\* the buffer after the step: its last candle overwritten, or one candle appended
Overwritten ==
    /\ Len(candles') = Len(candles)
    /\ \A i \in 1..(Len(candles) - 1) : candles'[i] = candles[i]
    /\ Get(candles'[Len(candles')], "close") = Num(2)
Appended ==
    /\ Len(candles') = Len(candles) + 1
    /\ \A i \in 1..Len(candles) : candles'[i] = candles[i]
    /\ Get(candles'[Len(candles')], "close") = Num(2)

\* C15: a streamed update whose time, normalized to seconds, equals the time
\* of the last buffered candle overwrites that candle and leaves the length
\* unchanged; any other update is appended and the length grows by one; no
\* other buffered candle changes.
UpdateOverwritesOrAppends ==
    [][Merged =>
          IF candles # <<>> /\ LastBuffered(candles) = WholeSeconds(arg')
          THEN Overwritten ELSE Appended]_vars

\* the same for updates whose time is a whole number of seconds
WholeSecondUpdateOverwritesOrAppends ==
    [][(Merged /\ StreamTime(arg') = WholeSeconds(arg')) =>
          IF candles # <<>> /\ LastBuffered(candles) = WholeSeconds(arg')
          THEN Overwritten ELSE Appended]_vars


\* C16: in every reachable state the candle buffer is strictly ascending in
\* time and holds no two candles with the same time.
BufferAscending == Ascending(candles)

\* right after a history load the buffer is in non-descending order of time
HistoryLoadSorted ==
    (lastOp = "history" /\ ret.ok) =>
        \A i \in 1..(Len(candles) - 1) :
            ~TimeLess(Get(candles[i + 1], "time"), Get(candles[i], "time"))


\* a response has just been handled that was requested for a symbol no longer
\* displayed, or by a component since unmounted
StaleArrival ==
    /\ events' # events
    /\ lastOp' \in {"history", "sync"}
    /\ ~net.alive \/ ret'.sym # net.symbol

\* C17: a history or sync response arriving after teardown or after the
\* symbol changed is discarded: candle buffer, chart series, engine shape set
\* and status stay as they were.
StaleResponseDiscarded ==
    [][StaleArrival =>
          /\ UNCHANGED <<candles, engineShapes>>
          /\ net'.series = net.series
          /\ net'.status = net.status]_vars

\* a sync response arriving after teardown changes neither the engine shapes nor the status
SyncAfterTeardownDiscarded ==
    [][(StaleArrival /\ lastOp' = "sync" /\ ~net.alive) =>
          (UNCHANGED engineShapes /\ net'.status = net.status)]_vars


\* C18: at most one live-feed connection is not closed, it is the one opened
\* last, for the displayed symbol, by a component still mounted; after
\* teardown none is open.
SingleLiveConnection ==
    /\ Cardinality(net.open) <= 1
    /\ \A c \in net.open : c.symbol = net.symbol /\ c.id = net.wsRef /\ net.alive
    /\ phase = "mounted" => net.open = {[id |-> net.made, symbol |-> net.symbol]}
    /\ phase = "unmounted" => net.open = {}

\* the symbol changed, the new connection carried an update, then the component was torn down
SingleLiveConnectionWitness ==
    /\ phase = "unmounted"
    /\ lastOp = "unmount"
    /\ net.made >= 2
    /\ net.symbol = "B"
    /\ candles # <<>>
    /\ net.open = {}

\* C21: in every reachable state no two shapes of the user shape store share an id.
UniqueShapeIds ==
    \A i, j \in 1..Len(userShapes) :
        i # j => Get(userShapes[i], "id") # Get(userShapes[j], "id")

\* drags, undos, clears, saves and syncs never make two stored ids equal
UniqueShapeIdsKept ==
    [][(UniqueShapeIds /\ lastOp' \notin {"down", "up"}) => UniqueShapeIds']_vars

\* a step of the named handlers
StepOf(ops) == events' # events /\ lastOp' \in ops

GestureOps == {"down", "move", "up", "undo", "clear", "save", "tool"}

\* C22: a sync leaves interaction state, drag snapshot, draft, user shapes,
\* selection, tool and persisted payload as they were, mid-drag and
\* mid-drawing included, and no gesture step changes the engine shape set.
SyncAndGesturesIndependent ==
    [][/\ StepOf({"apply"}) =>
             UNCHANGED <<interaction, drag, draftShape, userShapes, selectedId, tool, store, birth>>
       /\ StepOf(GestureOps) => UNCHANGED engineShapes]_vars

\* a sync has completed in the middle of a drag that had already moved its shape
SyncAndGesturesIndependentWitness ==
    /\ lastOp = "apply"
    /\ engineShapes # <<>>
    /\ interaction.mode = "dragging"
    /\ drag.moves >= 1
    /\ FindById(userShapes, interaction.id) # interaction.original

\* an id made by buildEngineShapes; a shape made by it
IsEngineId(id) == id.t = "str" /\ id.s[1] \in {"eng_lvl", "eng_zone", "eng_fibo"}
IsEngineShape(s) == IsEngineId(Get(s, "id")) \/ Get(s, "readonly") = Bool(TRUE)

\* an entry of the persisted shape list that was written from an engine shape
IsEngineEntry(e) ==
    /\ e.j = "obj"
    /\ \/ "readonly" \in DOMAIN e.f
       \/ "id" \in DOMAIN e.f /\ e.f.id.j = "str"
                              /\ e.f.id.s[1] \in {"eng_lvl", "eng_zone", "eng_fibo"}

\* no engine shape is selected, dragged, stored or persisted
NoEngineShapeInGestures ==
    /\ ~IsEngineId(selectedId)
    /\ interaction.mode = "dragging" =>
          (~IsEngineId(interaction.id) /\ ~IsEngineShape(interaction.original))
    /\ draftShape # Null => ~IsEngineShape(draftShape)
    /\ \A i \in 1..Len(userShapes) : ~IsEngineShape(userShapes[i])
    /\ (HasEnvelope /\ EnvHas("shapes") /\ EnvField("shapes").j = "arr") =>
          \A i \in 1..Len(EnvField("shapes").s) : ~IsEngineEntry(EnvField("shapes").s[i])

\* C23: engine shapes are read-only: whatever the pointer events, tool
\* changes, undos, clears and saves, no engine shape is selected, dragged,
\* stored or persisted, and the engine shape set changes only in a step of a
\* sync or applyAnnotations.
EngineShapesReadOnly ==
    [][/\ engineShapes' # engineShapes => StepOf({"apply"})
       /\ NoEngineShapeInGestures']_vars

\* a select press on an engine Level, with no user shape under the pointer
EngineShapesReadOnlyWitness ==
    /\ lastOp = "down"
    /\ tool = "select"
    /\ engineShapes # <<>>
    /\ selectedId = Null
    /\ interaction.mode = "none"
    /\ drag.last # Null
    /\ HitTest(engineShapes, view, drag.last) # Null
    /\ HitTest(userShapes, view, drag.last) = Null

\* a history or sync request of a mounted component has just failed
\* (network error or non-ok response)
RequestFailed(ops) == StepOf(ops) /\ net.alive /\ ~ret'.resp

\* C24: a failed history fetch or annotation sync is surfaced as a status
\* string, the attempt is abandoned and no request is issued again.
FailureSurfacedNoRetry ==
    [][RequestFailed({"history", "sync"}) =>
          /\ net'.status.k = "error"
          /\ net'.fetches \subseteq net.fetches
          /\ net'.syncs \subseteq net.syncs]_vars

\* a failed sync is surfaced as a status string; no failed request is issued again
SyncFailureSurfacedNoRetry ==
    [][/\ RequestFailed({"sync"}) => net'.status.k = "error"
       /\ RequestFailed({"history", "sync"}) =>
             (net'.fetches \subseteq net.fetches /\ net'.syncs \subseteq net.syncs)]_vars

\* buildEngineShapes fails on payload p
BuildThrows(p) == BuildEngineShapes(p, candles, now, [i \in 1..ItemCount(p) |-> 0]).threw

\* a failure has just been handled: a failed or unusable history response, a
\* failed sync, a payload the adapter fails on, a live message the series rejects
FailureStep ==
    \/ StepOf({"history", "message"}) /\ ~ret'.ok
    \/ StepOf({"sync"}) /\ (~ret'.resp \/ BuildThrows(arg'))
    \/ StepOf({"apply"}) /\ ret'.threw

\* C25: every failure ends as a no-op that leaves user shapes, engine shapes
\* and candle buffer at their last values, and raises no error out of the component.
FailuresNotFatal ==
    [][FailureStep =>
          /\ UNCHANGED <<userShapes, engineShapes, candles>>
          /\ ~(lastOp' = "apply" /\ ret'.threw)]_vars

\* every failure leaves user shapes, engine shapes and candle buffer at their last values
FailuresKeepState ==
    [][FailureStep => UNCHANGED <<userShapes, engineShapes, candles>>]_vars

\* saveDrawings returns even when the write to localStorage fails
FailedWriteContained == phase # "saveThrew"

\* the controller is idle / is drawing
Idle == interaction.mode = "none"
Drawing == interaction.mode = "drawing"

\* C26: a drawing gesture commits exactly one shape. A press with tool
\* trendline or zone in Idle enters Drawing with a draft whose a and b are the
\* pressed point and leaves the store alone; a mappable move changes only the
\* draft's b; no other step but a press or a release changes the draft; a
\* release at a mappable point appends one shape of the draft's kind with the
\* draft's a and b = the released point, selects it, clears the draft and
\* returns to Idle.
DrawingCommitsOneShape ==
    [][\A p \in Pointers :
          LET pt == ToPoint(view, p) IN
          /\ (Idle /\ pt # Null /\ \E rnd \in 0..MaxRnd : PointerDownDraw(p, rnd)) =>
                /\ interaction'.mode = "drawing"
                /\ Get(draftShape', "kind") = Str(tool)
                /\ Get(draftShape', "a") = pt /\ Get(draftShape', "b") = pt
                /\ UNCHANGED <<userShapes, store>>
          /\ (Drawing /\ pt # Null /\ PointerMove(p)) =>
                /\ draftShape' = Obj([draftShape.f EXCEPT !.b = pt])
                /\ UNCHANGED <<userShapes, store, interaction, selectedId>>
          /\ (Drawing /\ StepOf({"tool", "undo", "clear", "save", "apply", "view"})) =>
                UNCHANGED <<draftShape, interaction>>
          /\ (Drawing /\ pt # Null /\ PointerUp(p)) =>
                /\ Len(userShapes') = Len(userShapes) + 1
                /\ \A i \in 1..Len(userShapes) : userShapes'[i] = userShapes[i]
                /\ LET new == userShapes'[Len(userShapes')] IN
                   /\ Get(new, "kind") = Get(draftShape, "kind")
                   /\ Get(new, "id") = Get(draftShape, "id")
                   /\ Get(new, "a") = Get(draftShape, "a")
                   /\ Get(new, "b") = pt
                   /\ selectedId' = Get(new, "id")
                /\ draftShape' = Null
                /\ interaction'.mode = "none"]_vars

\* a zone drawn from one corner of the chart to the other has just been committed
DrawingCommitsOneShapeWitness ==
    /\ lastOp = "up"
    /\ Idle
    /\ draftShape = Null
    /\ userShapes # <<>>
    /\ LET new == userShapes[Len(userShapes)] IN
       /\ Get(new, "id") \in {Str(NewId("zone", rnd, now)) : rnd \in 0..MaxRnd}
       /\ Get(new, "kind") = Str("zone")
       /\ Get(new, "a") = ToPoint(FirstView, [x |-> 0, y |-> 0])
       /\ Get(new, "b") = ToPoint(FirstView, [x |-> 6, y |-> 12])
       /\ selectedId = Get(new, "id")

\* C27: a press with tool level in Idle, at a position whose y maps to a
\* price, appends exactly one Level at that price to the store, selects it,
\* creates no draft and leaves the controller in Idle.
LevelPressCreatesLevel ==
    [][\A p \in Pointers :
          LET price == YToPrice(view, p.y) IN
          (Idle /\ price # Null /\ \E rnd \in 0..MaxRnd : PointerDownLevel(p, rnd)) =>
             /\ Len(userShapes') = Len(userShapes) + 1
             /\ \A i \in 1..Len(userShapes) : userShapes'[i] = userShapes[i]
             /\ LET new == userShapes'[Len(userShapes')] IN
                /\ Get(new, "kind") = Str("level")
                /\ Get(new, "price") = price
                /\ selectedId' = Get(new, "id")
             /\ UNCHANGED <<draftShape, interaction>>]_vars

\* a Level has just been created at price 88 behind the shapes loaded from the store
LevelPressCreatesLevelWitness ==
    /\ lastOp = "down"
    /\ tool = "level"
    /\ Idle
    /\ draftShape = Null
    /\ Len(userShapes) = 2
    /\ LET new == userShapes[Len(userShapes)] IN
       /\ Get(new, "id") \in {Str(NewId("lvl", rnd, now)) : rnd \in 0..MaxRnd}
       /\ Get(new, "price") = Num(88)
       /\ selectedId = Get(new, "id")
       /\ Get(userShapes[1], "id") # Get(new, "id")

\* the shape hitTest stops at: the last shape of the list that is hit, Null when none is
HitShape(shapes, v, p) ==
    LET h == HitIdx(shapes, v, p) IN
    IF h = {} THEN Null ELSE shapes[CHOOSE i \in h : \A k \in h : k <= i]

\* what a select press in Idle at p does
SelectPressEffect(p) ==
    LET hit == HitShape(userShapes, view, p) IN
    /\ UNCHANGED <<userShapes, store>>
    /\ IF hit = Null
       THEN selectedId' = Null /\ interaction'.mode = "none"
       ELSE /\ interaction'.mode = "dragging"
            /\ interaction'.id = Get(hit, "id")
            /\ interaction'.original = hit
            /\ selectedId' = Get(hit, "id")

\* C28: a press with tool select in Idle leaves the store alone; when hitTest
\* finds a user shape the controller enters Dragging for that shape's id with
\* the shape as stored as its snapshot and the shape is selected; when nothing
\* is hit the selection is cleared and the controller stays in Idle.
SelectPressDragsHitShape ==
    [][\A p \in Pointers : (Idle /\ PointerDownSelect(p)) => SelectPressEffect(p)]_vars

\* the same while the ids of the store are unique
SelectPressDragsHitShapeUniqueIds ==
    [][\A p \in Pointers :
          (Idle /\ UniqueShapeIds /\ PointerDownSelect(p)) => SelectPressEffect(p)]_vars

Dragging == interaction.mode = "dragging"

\* C29: a pointer-move during a drag leaves the dragged shape at the original
\* snapshot translated by (domain point of the pointer now - domain point the
\* pointer had at pointer-down), whatever happened to the coordinate mapping
\* since the press; a mapping change alone does not move any shape.
DragAnchoredInDomain ==
    [][/\ StepOf({"view"}) => UNCHANGED userShapes
       /\ \A p \in Pointers :
             (/\ Dragging /\ drag.anchor # Null
              /\ ToPoint(view, p) # Null /\ ToPoint(view, interaction.start) # Null
              /\ PointerMove(p)) =>
                LET cur == ToPoint(view, p)
                    dt == Get(cur, "time").v - Get(drag.anchor, "time").v
                    dp == Get(cur, "price").v - Get(drag.anchor, "price").v
                IN \A i \in 1..Len(userShapes') :
                      Get(userShapes'[i], "id") = interaction.id =>
                          userShapes'[i] = Shifted(interaction.original, dt, dp)]_vars

\* a mapping change alone moves no shape and changes neither the snapshot nor the pressed pixel
MappingChangeKeepsShapes ==
    [][StepOf({"view"}) => UNCHANGED <<userShapes, interaction, store>>]_vars

\* the pixels shape s is drawn at under viewport v (Null where the bridge maps nothing)
DrawnAt(s, v) ==
    IF Get(s, "kind") = Str("level") THEN <<PriceToY(v, Get(s, "price"))>>
    ELSE <<TimeToX(v, Get(Get(s, "a"), "time")), PriceToY(v, Get(Get(s, "a"), "price")),
           TimeToX(v, Get(Get(s, "b"), "time")), PriceToY(v, Get(Get(s, "b"), "price"))>>

ShownShapes == userShapes \o engineShapes \o (IF draftShape = Null THEN <<>> ELSE <<draftShape>>)

\* C30: in every quiescent state of the mounted component the overlay shows
\* each shape where the current coordinate mapping puts its domain coordinates.
OverlayFollowsViewport ==
    phase = "mounted" =>
        /\ overlay # Null
        /\ \A i \in 1..Len(ShownShapes) :
              DrawnAt(ShownShapes[i], overlay) = DrawnAt(ShownShapes[i], view)

\* every step that sets the user shapes, the engine shapes, the draft or the
\* selection redraws the overlay with the viewport current at that step
OverlayFollowsShapes ==
    [][(\/ userShapes' # userShapes \/ engineShapes' # engineShapes
        \/ draftShape' # draftShape \/ selectedId' # selectedId) => overlay' = view']_vars

(***************************************************************************)
(* drawing/render: the overlay renderer on a canvas 2D context.  A context *)
(* is its current line dash (set or not), its save() stack and the drawing *)
(* commands the canvas holds since the last clearRect.  Each command notes *)
(* the shape renderShape was drawing.                                      *)
(***************************************************************************)
NoCtx == [dash |-> FALSE, saved |-> <<>>, ops |-> <<>>]

CtxSave(ctx) == [ctx EXCEPT !.saved = Append(@, ctx.dash)]
CtxRestore(ctx) ==
    IF ctx.saved = <<>> THEN ctx
    ELSE [ctx EXCEPT !.dash = ctx.saved[Len(ctx.saved)],
                     !.saved = SubSeq(@, 1, Len(@) - 1)]
CtxSetLineDash(ctx, on) == [ctx EXCEPT !.dash = on]
CtxDraw(ctx, cmd) == [ctx EXCEPT !.ops = Append(@, cmd)]
ClearRect(ctx) == [ctx EXCEPT !.ops = <<[op |-> "clearRect"]>>]

\* drawLabel(ctx, x, y, text, color)
DrawLabel(ctx, of, x, y, text, color) ==
    CtxRestore(CtxDraw(CtxSave(ctx),
        [op |-> "fillText", of |-> of, x |-> x, y |-> y, text |-> text, color |-> color]))

\* drawLevel(ctx, y, width, color)
DrawLevel(ctx, of, y, width, color) ==
    CtxDraw(ctx, [op |-> "stroke", of |-> of, ax |-> 0, ay |-> y, bx |-> width, by |-> y,
                  color |-> color, dashed |-> ctx.dash])

\* drawTrendline(ctx, ax, ay, bx, by, color)
DrawTrendline(ctx, of, ax, ay, bx, by, color) ==
    CtxDraw(ctx, [op |-> "stroke", of |-> of, ax |-> ax, ay |-> ay, bx |-> bx, by |-> by,
                  color |-> color, dashed |-> ctx.dash])

\* drawZone(ctx, x1, y1, x2, y2, stroke, fill)
DrawZone(ctx, of, x1, y1, x2, y2, stroke, fill) ==
    LET left == Min(x1, x2)
        right == Max(x1, x2)
        top == Min(y1, y2)
        bottom == Max(y1, y2)
    IN CtxDraw(ctx, [op |-> "rect", of |-> of, left |-> left, top |-> top,
                     w |-> Max(1, right - left), h |-> Max(1, bottom - top),
                     color |-> stroke, fill |-> fill, dashed |-> ctx.dash])

\* normalizeRect(a, b)
NormalizeRect(a, b) ==
    [t1 |-> MathMin(Get(a, "time"), Get(b, "time")),
     t2 |-> MathMax(Get(a, "time"), Get(b, "time")),
     p1 |-> MathMin(Get(a, "price"), Get(b, "price")),
     p2 |-> MathMax(Get(a, "price"), Get(b, "price"))]

\* renderShape(ctx, shape, coords, width, selected, style)
RenderShape(ctx, shape, v, selected) ==
    LET isEngine == Get(shape, "readonly") = Bool(TRUE)
        green == Get(shape, "color") = Str("green")
        baseColor == IF isEngine THEN (IF green THEN "engineGreen" ELSE "engineGold")
                     ELSE "user"
        color == IF selected THEN "selected" ELSE baseColor
        of == Get(shape, "id")
        label == Get(shape, "label")
    IN IF Get(shape, "kind") = Str("level")
       THEN LET y == PriceToY(v, Get(shape, "price")) IN
            IF y = Null THEN ctx
            ELSE LET drawn == DrawLevel(ctx, of, y.v, v.w, color) IN
                 IF Truthy(label)
                 THEN DrawLabel(drawn, of, 10, Max(14, y.v - 8), label, color)
                 ELSE drawn
       ELSE IF Get(shape, "kind") = Str("trendline")
       THEN LET ax == TimeToX(v, Get(Get(shape, "a"), "time"))
                ay == PriceToY(v, Get(Get(shape, "a"), "price"))
                bx == TimeToX(v, Get(Get(shape, "b"), "time"))
                by == PriceToY(v, Get(Get(shape, "b"), "price"))
            IN IF ax = Null \/ ay = Null \/ bx = Null \/ by = Null THEN ctx
               ELSE LET drawn == DrawTrendline(ctx, of, ax.v, ay.v, bx.v, by.v, color) IN
                    IF Truthy(label)
                    THEN DrawLabel(drawn, of, bx.v + 8, by.v, label, color)
                    ELSE drawn
       ELSE IF Get(shape, "kind") = Str("zone")
       THEN LET rect == NormalizeRect(Get(shape, "a"), Get(shape, "b"))
                x1 == TimeToX(v, rect.t1)
                x2 == TimeToX(v, rect.t2)
                y1 == PriceToY(v, rect.p1)
                y2 == PriceToY(v, rect.p2)
                fill == IF isEngine THEN (IF green THEN "green18" ELSE "gold18")
                        ELSE "white10"
            IN IF x1 = Null \/ x2 = Null \/ y1 = Null \/ y2 = Null THEN ctx
               ELSE LET drawn == DrawZone(ctx, of, x1.v, y1.v, x2.v, y2.v, color, fill) IN
                    IF Truthy(label)
                    THEN DrawLabel(drawn, of, Min(x1.v, x2.v) + 10, Min(y1.v, y2.v) + 18,
                                   label, color)
                    ELSE drawn
       ELSE ctx

\* for (const shape of shapes) renderShape(..., shape.id === selectedId, ...)
RECURSIVE RenderShapes(_, _, _, _, _)
RenderShapes(ctx, shapes, i, v, sel) ==
    IF i > Len(shapes) THEN ctx
    ELSE RenderShapes(RenderShape(ctx, shapes[i], v,
                                  sel # Null /\ Get(shapes[i], "id") = sel),
                      shapes, i + 1, v, sel)

\* if (draftShape) { save; setLineDash([6, 6]); renderShape; restore }
RenderDraftLeakingDash(ctx, draft, v) ==
    IF draft = Null THEN ctx
    ELSE RenderShape(CtxSetLineDash(ctx, TRUE), draft, v, FALSE)
RenderDraft(ctx, draft, v) ==
    IF draft = Null THEN ctx
    ELSE CtxRestore(RenderShape(CtxSetLineDash(CtxSave(ctx), TRUE), draft, v, FALSE))

\* renderOverlay(input) on the context ctx
RenderOverlayOn(ctx, v, user, engine, draft, sel) ==
    LET cleared == ClearRect(ctx)
        under == RenderShapes(cleared, engine, 1, v, Null)
        drawings == RenderShapes(under, user, 1, v, sel)
    IN RenderDraft(drawings, draft, v)

(***************************************************************************)
(* SpecRender: renderOverlay and hitTest called on drawn shapes.  The same *)
(* context is rendered on twice, as the render effect does on one canvas.  *)
(***************************************************************************)
Labelled(s, text) == Obj([k \in DOMAIN s.f \cup {"label"} |->
                             IF k = "label" THEN Str(text) ELSE s.f[k]])

RenderEngineLists ==
    { <<>>,
      <<EngineLevel(Obj([price |-> Num(100), label |-> Str("S")]), 0, 1)>>,
      <<EngineZone(Obj([priceFrom |-> Num(90), priceTo |-> Num(110), label |-> Undef]),
                   "eng_fz", "green", Num(0), Num(40), 0, 1),
        EngineLevel(Obj([price |-> Num(200), label |-> Undef]), 1, 1)>> }

RenderUserShapes ==
    { Level(<<"lvl", 1, 1>>, Num(1), Num(140)),
      Level(<<"lvl", 2, 1>>, Num(1), Num(300)),
      Seg("trendline", <<"tl", 3, 2>>, Num(2), Point(Num(0), Num(120)), Point(Num(40), Num(90))),
      Seg("trendline", <<"tl", 4, 2>>, Num(2), Point(Num(20), Num(100)), Point(Num(20), Num(100))),
      Seg("trendline", <<"tl", 10, 2>>, Num(2), Point(Num(7), Num(117)), Point(Num(12), Num(129))),
      Labelled(Seg("zone", <<"zone", 5, 3>>, Num(3), Point(Num(30), Num(100)),
                   Point(Num(10), Num(130))), "Z"),
      Seg("zone", <<"zone", 6, 3>>, Num(3), Point(Num(20), Num(100)), Point(Num(20), Num(100))),
      Seg("zone", <<"zone", 7, 3>>, Num(3), Point(Num(10), Num(100)), Point(Num(10), Num(130))) }

RenderUserLists ==
    { l \in SeqsUpTo(RenderUserShapes, MaxLen) : \A i, j \in 1..Len(l) : l[i] = l[j] => i = j }

RenderDrafts ==
    { Null,
      Seg("trendline", <<"tl", 8, 4>>, Num(4), Point(Num(5), Num(140)), Point(Num(5), Num(140))),
      Seg("zone", <<"zone", 9, 4>>, Num(4), Point(Num(5), Num(140)), Point(Num(25), Num(95))) }

RenderPointers == [x : {5, 20, 39}, y : {10, 45, 50}] \cup {[x |-> 0, y |-> 29]}

InitRender ==
    /\ tool = "select"
    /\ interaction = [mode |-> "none"]
    /\ birth = <<>>
    /\ drag = NoDrag
    /\ lastOp = "init"
    /\ events = 0
    /\ net = NoNet
    /\ overlay = Null
    /\ store = [denied |-> FALSE, item |-> NoItem]
    /\ now = 1
    /\ candles = <<>>
    /\ view = HitView
    /\ engineShapes \in RenderEngineLists
    /\ userShapes \in RenderUserLists
    /\ draftShape \in RenderDrafts
    /\ selectedId \in {Null} \cup {Get(userShapes[i], "id") : i \in 1..Len(userShapes)}
    /\ ptr \in RenderPointers
    /\ arg = NoCtx
    /\ ret = Null
    /\ phase = "toRender"

\* the render effect calls renderOverlay on the canvas's context
RdRender ==
    /\ phase \in {"toRender", "rendered"}
    /\ arg' = RenderOverlayOn(arg, view, userShapes, engineShapes, draftShape, selectedId)
    /\ phase' = IF phase = "toRender" THEN "rendered" ELSE "renderedAgain"
    /\ UNCHANGED <<store, userShapes, now, view, ptr, candles, ret, uiVars>>

\* hitTest on the user shapes at the pointer
RdHit ==
    /\ phase = "toRender"
    /\ ret' = HitTest(userShapes, view, ptr)
    /\ phase' = "hit"
    /\ UNCHANGED <<store, userShapes, now, view, ptr, candles, arg, uiVars>>

NextRender == RdRender \/ RdHit

SpecRender == InitRender /\ [][NextRender]_vars

Rendered == phase \in {"rendered", "renderedAgain"}

\* the shapes renderOverlay is given, back to front, that the bridge can map
Drawable(s) == RenderShape(NoCtx, s, view, FALSE).ops # <<>>
RECURSIVE SelectDrawable(_)
SelectDrawable(shapes) ==
    IF shapes = <<>> THEN <<>>
    ELSE (IF Drawable(shapes[1]) THEN <<shapes[1]>> ELSE <<>>) \o SelectDrawable(Tail(shapes))
BackToFront ==
    SelectDrawable(engineShapes \o userShapes
                   \o (IF draftShape = Null THEN <<>> ELSE <<draftShape>>))

\* the geometry commands on the canvas, in the order they were issued
RECURSIVE Strokes(_)
Strokes(ops) ==
    IF ops = <<>> THEN <<>>
    ELSE (IF ops[1].op \in {"stroke", "rect"} THEN <<ops[1]>> ELSE <<>>) \o Strokes(Tail(ops))

\* C31: after every render the canvas holds a clearRect followed by one
\* geometry command per mappable shape in the order engine shapes, user shapes
\* in store order, draft; the draft's command is the only dashed one and the
\* last one; the context is left with no line dash and an empty save() stack,
\* on the first render and on the next one.
DrawnBackToFront ==
    Rendered =>
        LET strokes == Strokes(arg.ops) IN
        /\ arg.ops # <<>> /\ arg.ops[1] = [op |-> "clearRect"]
        /\ \A i \in 2..Len(arg.ops) : arg.ops[i].op # "clearRect"
        /\ Len(strokes) = Len(BackToFront)
        /\ \A i \in 1..Len(strokes) :
              /\ strokes[i].of = Get(BackToFront[i], "id")
              /\ strokes[i].dashed <=> (draftShape # Null /\ BackToFront[i] = draftShape)
        /\ (draftShape # Null /\ Drawable(draftShape)) =>
              strokes[Len(strokes)].of = Get(draftShape, "id")
        /\ arg.dash = FALSE /\ arg.saved = <<>>

DrawnBackToFrontWitness ==
    /\ phase = "renderedAgain"
    /\ Len(engineShapes) = 2 /\ Len(userShapes) = 2 /\ draftShape # Null
    /\ Len(Strokes(arg.ops)) = 4
    /\ Strokes(arg.ops)[4].dashed /\ ~Strokes(arg.ops)[1].dashed

\* a Trendline or Zone whose two endpoints are the same mappable point
Degenerate(s) ==
    /\ Get(s, "kind") \in {Str("trendline"), Str("zone")}
    /\ Get(s, "a") = Get(s, "b")
    /\ ToPoint(view, [x |-> Get(Get(s, "a"), "time").v - view.t0,
                      y |-> view.p0 - Get(Get(s, "a"), "price").v]) # Null
RenderedShapes ==
    Range(engineShapes) \cup Range(userShapes)
        \cup (IF draftShape = Null THEN {} ELSE {draftShape})
\* the pixels a geometry command spans along its longer side
Extent(cmd) ==
    IF cmd.op = "rect" THEN Min(cmd.w, cmd.h)
    ELSE Max(Abs(cmd.bx - cmd.ax), Abs(cmd.by - cmd.ay))
DrawnWithExtent(s, kinds) ==
    (Degenerate(s) /\ Get(s, "kind") \in kinds) =>
        \E i \in 1..Len(arg.ops) :
            /\ arg.ops[i].op \in {"stroke", "rect"}
            /\ arg.ops[i].of = Get(s, "id")
            /\ Extent(arg.ops[i]) >= 1

\* C32: after a render every degenerate Trendline or Zone given to it has a
\* geometry command on the canvas that spans at least 1 pixel.
DegenerateShapesVisible ==
    Rendered => \A s \in RenderedShapes : DrawnWithExtent(s, {Str("trendline"), Str("zone")})

\* the Zone half of C32: drawZone clamps width and height to 1
DegenerateZonesVisible ==
    Rendered => \A s \in RenderedShapes : DrawnWithExtent(s, {Str("zone")})

\* the same shape with its endpoints, their times or their prices exchanged
SwapEnds(s) == Obj([s.f EXCEPT !.a = s.f.b, !.b = s.f.a])
SwapTimes(s) ==
    Obj([s.f EXCEPT !.a = Point(Get(s.f.b, "time"), Get(s.f.a, "price")),
                    !.b = Point(Get(s.f.a, "time"), Get(s.f.b, "price"))])
SwapPrices(s) ==
    Obj([s.f EXCEPT !.a = Point(Get(s.f.a, "time"), Get(s.f.b, "price")),
                    !.b = Point(Get(s.f.b, "time"), Get(s.f.a, "price"))])
Reordered(s, kinds) ==
    IF Get(s, "kind") \notin kinds THEN {}
    ELSE IF Get(s, "kind") = Str("zone") THEN {SwapEnds(s), SwapTimes(s), SwapPrices(s)}
    ELSE IF Get(s, "kind") = Str("trendline") THEN {SwapEnds(s)}
    ELSE {}
OrderIrrelevant(kinds) ==
    \A i \in 1..Len(userShapes) : \A t \in Reordered(userShapes[i], kinds) :
        LET swapped == [userShapes EXCEPT ![i] = t] IN
        /\ phase = "hit" => HitTest(swapped, view, ptr) = ret
        /\ (Rendered /\ Get(t, "kind") = Str("zone")) =>
              RenderOverlayOn(NoCtx, view, swapped, engineShapes, draftShape,
                              selectedId).ops = arg.ops

\* C33: exchanging the endpoints of a Trendline, or the endpoints, the times or
\* the prices of a Zone, in the list given to hitTest gives the same hitTest
\* result at the same pointer, and for a Zone the same commands on the canvas.
EndpointOrderIrrelevant == OrderIrrelevant({Str("trendline"), Str("zone")})

\* the Zone half of C33: both consumers take min/max of the endpoints first
ZoneEndpointOrderIrrelevant == OrderIrrelevant({Str("zone")})

\* the buffered candles that came from the stream (history candles close at 1)
Streamed(buf) == {i \in 1..Len(buf) : Get(buf[i], "close") = Num(2)}

\* C34: while the symbol stays and the view is up, every streamed candle in the
\* buffer is still there after the next step, or has a candle of the same time
\* in its place when the step merged a streamed update; a history response
\* drops none.
StreamedCandlesKept ==
    [][(events' # events /\ lastOp' \notin {"symbol", "unmount"}) =>
          \A i \in Streamed(candles) :
              \E j \in 1..Len(candles') :
                  /\ Get(candles'[j], "time") = Get(candles[i], "time")
                  /\ candles'[j] = candles[i] \/ lastOp' = "message"]_vars

\* the stream on its own keeps them: only a history response replaces the buffer
StreamedCandlesKeptByStream ==
    [][(events' # events /\ lastOp' \notin {"symbol", "unmount", "history"}) =>
          \A i \in Streamed(candles) :
              \E j \in 1..Len(candles') :
                  /\ Get(candles'[j], "time") = Get(candles[i], "time")
                  /\ candles'[j] = candles[i] \/ lastOp' = "message"]_vars

\* C35: in every reachable state of the mounted component there is a draft
\* shape exactly when the interaction mode is drawing.
DraftIffDrawing ==
    phase = "mounted" => (draftShape # Null <=> interaction.mode = "drawing")

\* one direction holds: the Drawing state always has its draft
DrawingHasDraft ==
    (phase = "mounted" /\ interaction.mode = "drawing") => draftShape # Null

StoredIds == {Get(userShapes[i], "id") : i \in 1..Len(userShapes)}

\* C36: in every reachable state selectedId is null or the id of a shape in
\* the user shape store.
SelectionNeverDangles ==
    phase = "mounted" => (selectedId = Null \/ selectedId \in StoredIds)

\* a shape is selected and being dragged while a sync has replaced the engine
\* shapes and the selected shape is not the newest one
SelectionNeverDanglesWitness ==
    /\ phase = "mounted"
    /\ Len(userShapes) = 2
    /\ selectedId = Get(userShapes[1], "id")
    /\ selectedId # Get(userShapes[2], "id")
    /\ interaction.mode = "dragging"
    /\ engineShapes # <<>>

\* a pointer-move handled in the Dragging state
DragMoveStep == StepOf({"move"}) /\ interaction.mode = "dragging"

\* what a drag move may do to the shape s at one index, t being the shape there
\* afterwards: nothing but the coordinates change, a Level only in its price, a
\* Trendline or Zone by one (dt, dp) for both endpoints
MovedOnly(s, t) ==
    /\ DOMAIN t.f = DOMAIN s.f
    /\ \A k \in DOMAIN s.f \ {"price", "a", "b"} : t.f[k] = s.f[k]
    /\ Get(s, "kind") = Str("level") => \A k \in DOMAIN s.f \ {"price"} : t.f[k] = s.f[k]
    /\ Get(s, "kind") \in {Str("trendline"), Str("zone")} =>
          /\ Get(t.f.a, "time").v - Get(s.f.a, "time").v
                = Get(t.f.b, "time").v - Get(s.f.b, "time").v
          /\ Get(t.f.a, "price").v - Get(s.f.a, "price").v
                = Get(t.f.b, "price").v - Get(s.f.b, "price").v
DragMoveFrameHolds ==
    /\ Len(userShapes') = Len(userShapes)
    /\ \A i \in 1..Len(userShapes) :
          IF Get(userShapes[i], "id") # interaction.id
          THEN userShapes'[i] = userShapes[i]
          ELSE MovedOnly(userShapes[i], userShapes'[i])

\* C37: a pointer-move in the Dragging state keeps the store's length and
\* order, leaves every shape with another id as it was, and changes of the
\* dragged shape only its coordinates: id, kind, createdAt and label stay, a
\* Level moves only in price, a Trendline or Zone by the same delta at both
\* endpoints.
DragMoveFrame == [][DragMoveStep => DragMoveFrameHolds]_vars

\* the same while the ids in the store are distinct
DragMoveFrameUniqueIds ==
    [][(DragMoveStep /\ \A i, j \in 1..Len(userShapes) :
            Get(userShapes[i], "id") = Get(userShapes[j], "id") => i = j)
          => DragMoveFrameHolds]_vars

\* the shapes in the store that carry the id of the drag in progress
DraggedInStore(shapes) ==
    {i \in 1..Len(shapes) : Get(shapes[i], "id") = interaction.id}

\* C38: in the Dragging state no pointer-move and no pointer-up brings a shape
\* back: none of them adds a shape, and once undo or clear has left the store
\* without a shape of the dragged id they leave the store as it is.
RemovedShapeNotResurrected ==
    [][(StepOf({"move", "up"}) /\ interaction.mode = "dragging") =>
          /\ Len(userShapes') = Len(userShapes)
          /\ DraggedInStore(userShapes) = {} => userShapes' = userShapes]_vars

\* undo has removed the dragged shape and a mappable pointer-move followed in
\* the same drag, other shapes remaining in the store
RemovedShapeNotResurrectedWitness ==
    /\ lastOp = "move" /\ interaction.mode = "dragging"
    /\ userShapes # <<>> /\ DraggedInStore(userShapes) = {}
    /\ drag.last # Null /\ ToPoint(view, drag.last) # Null
    /\ ToPoint(view, interaction.start) # Null
    /\ drag.last # interaction.start

\* C39: in every state from the mount onward the persisted envelope has
\* version 1 and its shapes equal the in-memory user shapes; the mount itself
\* writes the list loadDrawings returned over whatever was stored.
MountRewritesStore == phase = "mounted" => EnvelopeMatchesStore

\* the same while every number in the store is finite: the mount replaces a
\* missing, unparsable or version-2 payload and drops the invalid entries
MountRewritesFiniteStore ==
    (phase = "mounted" /\ \A i \in 1..Len(userShapes) : HasOnlyFiniteNumbers(userShapes[i]))
        => EnvelopeMatchesStore


\* the response of a sync has just been handled by a mounted component after
\* the response of a sync started later than it
StaleSyncHandled == StepOf({"sync"}) /\ net.alive /\ ret'.n < net.handled

\* C40: when two annotation syncs overlap, the one started last wins: once its
\* response has been handled, the response of the sync started earlier changes
\* neither the engine shapes nor the sync status, whichever arrived first.
LastStartedSyncWins ==
    [][StaleSyncHandled => (engineShapes' = engineShapes /\ net'.status = net.status)]_vars

\* the response handled last wins: a successful response a mounted component
\* handles sets the status to its own sync's symbol, whenever it was started
LastHandledSyncWins ==
    [][(StepOf({"sync"}) /\ net.alive /\ ret'.ok /\ ~BuildThrows(arg')) =>
          net'.status = [k |-> "synced", symbol |-> ret'.sym]]_vars

====
